---- MODULE Spec2Model ----
(***************************************************************************)
(* AI Drag Racing: the race orchestrator of pages/index.tsx                *)
(* (appReducer + handleRunComparison) together with the event stream that   *)
(* a provider adapter (utils/providers/zhipu.ts, cerebras.ts, moonshot.ts)  *)
(* hands to it.                                                            *)
(*                                                                         *)
(* Spec is the one-race-at-a-time environment: handleRunComparison is      *)
(* invoked when no earlier invocation is still in flight, and Reset is the *)
(* toolbar button (enabled when nothing is loading).  Every action is the  *)
(* code that runs between two suspension points of the event loop.         *)
(***************************************************************************)
EXTENDS Integers, Sequences, FiniteSets, TLC

VARIABLES
    state,   \* AppState held by useReducer
    hrc,     \* the in-flight invocation of handleRunComparison (closure + position)
    tasks,   \* one async task per entry of providersToTest (Promise.all)
    now,     \* Date.now()
    prior,   \* an earlier invocation that was still in flight when Start was pressed again
    call,    \* one generate call of a provider adapter, with the response it reads
    board    \* what the Leaderboard component last rendered

vars == <<state, hrc, tasks, now, prior, call, board>>

----------------------------------------------------------------------------
(* Bounds *)

MaxChunks == 3        \* chunk events one adapter call yields at most
MaxTokenLimit == 2    \* raceConfig.tokenLimit ranges over 1..MaxTokenLimit
MaxSeconds == 1       \* raceConfig.timeLimit ranges over 1..MaxSeconds (seconds)
Epoch == 1000         \* Date.now() when the page is loaded
EarlyMs == 50         \* an instant less than SynthOffset after Epoch

(* Program constants *)

SynthOffset == 100    \* firstTokenTime: raceStartTime + 100
MsPerSecond == 1000   \* elapsed = (Date.now() - raceStartTime) / 1000
CharsPerToken == 4    \* character-to-token heuristic of utils/tokens

\* the non-empty text delta of the k-th content event of a stream
DeltaAt(k) == IF k % 2 = 1 THEN "a" ELSE "bc"
\* the instants at which the clock is read: the page load, one shortly after,
\* and one at which every configurable time limit has been reached
Instants == {Epoch, Epoch + EarlyMs, Epoch + MaxSeconds * MsPerSecond}

None == <<>>
Some(x) == <<x>>
IsSome(o) == o # <<>>
Val(o) == o[1]

Pair(p, m) == [providerId |-> p, modelId |-> m]
PairA == Pair("zhipu", "glm-4")
PairB == Pair("cerebras", "llama3.1-8b")
Providers == {"zhipu", "cerebras"}
ApiKey == "sk"

RaceModes == {"drag", "token_limit", "time_limit", "free_for_all"}
\* the sliders of RaceSettings only produce positive limits (50..2000 tokens,
\* 5..120 seconds); the limits are scaled down to 1..MaxTokenLimit, 1..MaxSeconds
RaceConfigs ==
    [mode : RaceModes, tokenLimit : 1..MaxTokenLimit, timeLimit : 1..MaxSeconds]

----------------------------------------------------------------------------
(* appReducer *)

\* variant: the lane id is the provider id alone
resultId_providerOnly(p) == p.providerId
resultId(p) == p.providerId \o "-" \o p.modelId

\* variant: deselecting removes every pair that has the model's name
TOGGLE_MODEL_SELECTION_byModelName(s, p) ==
    LET exists == \E i \in DOMAIN s.selectedPairs : s.selectedPairs[i] = p
    IN  [s EXCEPT !.selectedPairs =
            IF exists THEN SelectSeq(@, LAMBDA q : q.modelId # p.modelId) ELSE Append(@, p)]
TOGGLE_MODEL_SELECTION(s, p) ==
    LET exists == \E i \in DOMAIN s.selectedPairs : s.selectedPairs[i] = p
    IN  [s EXCEPT !.selectedPairs =
            IF exists THEN SelectSeq(@, LAMBDA q : q # p) ELSE Append(@, p)]

START_COMPARISON(s, providersToTest) ==
    [s EXCEPT !.isLoading = TRUE,
              !.results = [i \in DOMAIN providersToTest |->
                  [id |-> resultId(providersToTest[i]),
                   providerName |-> providersToTest[i].providerId,
                   modelName |-> providersToTest[i].modelId,
                   responseText |-> "",
                   metrics |-> None,
                   isLoading |-> TRUE,
                   error |-> None]]]

\* variant: the chunk is put in front of the text
RECEIVE_CHUNK_prepends(s, id, chunk) ==
    [s EXCEPT !.results =
        [i \in DOMAIN s.results |->
            IF s.results[i].id = id
            THEN [s.results[i] EXCEPT !.responseText = chunk \o @]
            ELSE s.results[i]]]

RECEIVE_CHUNK(s, id, chunk) ==
    [s EXCEPT !.results =
        [i \in DOMAIN s.results |->
            IF s.results[i].id = id
            THEN [s.results[i] EXCEPT !.responseText = @ \o chunk]
            ELSE s.results[i]]]

FINISH_STREAM(s, id, metrics) ==
    [s EXCEPT !.results =
        [i \in DOMAIN s.results |->
            IF s.results[i].id = id
            THEN [s.results[i] EXCEPT !.isLoading = FALSE, !.metrics = Some(metrics)]
            ELSE s.results[i]]]

\* variant: the error is written to every lane
SET_ERROR_everyLane(s, id, error) ==
    [s EXCEPT !.results =
        [i \in DOMAIN s.results |->
            [s.results[i] EXCEPT !.isLoading = FALSE, !.error = Some(error)]]]

SET_ERROR(s, id, error) ==
    [s EXCEPT !.results =
        [i \in DOMAIN s.results |->
            IF s.results[i].id = id
            THEN [s.results[i] EXCEPT !.isLoading = FALSE, !.error = Some(error)]
            ELSE s.results[i]]]

FINISH_COMPARISON(s) ==
    [s EXCEPT !.isLoading = FALSE, !.raceState = "finished", !.countdownValue = None]

RESET_RACE(s) ==
    [s EXCEPT !.isLoading = FALSE, !.results = <<>>, !.raceState = "idle",
              !.countdownValue = None]

SET_RACE_STATE(s, rs) == [s EXCEPT !.raceState = rs]

SET_COUNTDOWN(s, v) == [s EXCEPT !.countdownValue = v]

SET_PROMPT(s, prompt) == [s EXCEPT !.prompt = prompt]

SET_API_KEY(s, providerId, apiKey) == [s EXCEPT !.apiKeys[providerId] = apiKey]

CLEAR_PROVIDER_SELECTIONS(s, providerId) ==
    [s EXCEPT !.selectedPairs = SelectSeq(@, LAMBDA q : q.providerId # providerId)]

SET_PROVIDER_ENABLED(s, providerId, enabled) ==
    [s EXCEPT !.enabledProviders[providerId] = Some(enabled)]

SET_RACE_CONFIG(s, config) == [s EXCEPT !.raceConfig = config]

appReducer(s, a) ==
    CASE a.type = "TOGGLE_MODEL_SELECTION" -> TOGGLE_MODEL_SELECTION(s, a.payload)
      [] a.type = "SET_PROMPT" -> SET_PROMPT(s, a.payload)
      [] a.type = "SET_API_KEY" -> SET_API_KEY(s, a.providerId, a.apiKey)
      [] a.type = "CLEAR_PROVIDER_SELECTIONS" -> CLEAR_PROVIDER_SELECTIONS(s, a.providerId)
      [] a.type = "SET_PROVIDER_ENABLED" -> SET_PROVIDER_ENABLED(s, a.providerId, a.enabled)
      [] a.type = "SET_RACE_CONFIG" -> SET_RACE_CONFIG(s, a.payload)
      [] a.type = "START_COMPARISON" -> START_COMPARISON(s, a.providersToTest)
      [] a.type = "RECEIVE_CHUNK" -> RECEIVE_CHUNK(s, a.resultId, a.chunk)
      [] a.type = "FINISH_STREAM" -> FINISH_STREAM(s, a.resultId, a.metrics)
      [] a.type = "SET_ERROR" -> SET_ERROR(s, a.resultId, a.error)
      [] a.type = "FINISH_COMPARISON" -> FINISH_COMPARISON(s)
      [] a.type = "RESET_RACE" -> RESET_RACE(s)
      [] a.type = "SET_RACE_STATE" -> SET_RACE_STATE(s, a.payload)
      [] a.type = "SET_COUNTDOWN" -> SET_COUNTDOWN(s, a.payload)
      [] OTHER -> s

RECURSIVE dispatchAll(_, _)
dispatchAll(s, as) ==
    IF as = <<>> THEN s ELSE dispatchAll(appReducer(s, Head(as)), Tail(as))

----------------------------------------------------------------------------
(* utils/tokens (not part of the sources at hand): the character heuristic *)

approxTokensFromText(text) == (Len(text) + CharsPerToken - 1) \div CharsPerToken

finalTokenTotal(prompt, generated) ==
    approxTokensFromText(prompt) + approxTokensFromText(generated)

----------------------------------------------------------------------------
(* Provider adapter: the locals of one generate call live in the task      *)

Falsy(o) == o = None \/ Val(o) = 0

\* variant: the first-token time is taken again at every content event
generateOnContent_overwrites(t, content, time) ==
    [t EXCEPT !.firstTokenTime = Some(time),
              !.generatedText = @ \o content,
              !.yielded = Append(@, content)]

\* for await (chunk of stream) { if (content) { ... yield chunk } }
generateOnContent(t, content, time) ==
    [t EXCEPT !.firstTokenTime = IF Falsy(@) THEN Some(time) ELSE @,
              !.generatedText = @ \o content,
              !.yielded = Append(@, content)]

\* the metrics event generate yields once its decoder sequence has ended
generateMetrics(t, prompt, time) ==
    [startTime |-> Val(t.startTime),
     firstTokenTime |-> t.firstTokenTime,
     finishTime |-> time,
     tokenCount |-> finalTokenTotal(prompt, t.generatedText),
     inputTokens |-> Some(approxTokensFromText(prompt)),
     outputTokens |-> approxTokensFromText(t.generatedText)]

\* the name an adapter puts in front of its error messages
ProviderLabel(providerId) ==
    CASE providerId = "zhipu" -> "Zhipu"
      [] providerId = "cerebras" -> "Cerebras"
      [] OTHER -> "Moonshot"

HttpErrorMessage(providerId, status, body) ==
    ProviderLabel(providerId) \o " API error: " \o status \o " " \o body

\* utils/apiClient (not part of the sources at hand): the adapter's sequence, re-yielded
streamCompletion(event) == event

----------------------------------------------------------------------------
(* handleRunComparison.  A task carries the locals of its async function    *)
(* (tokenCount, sawMetrics), the locals of the generate call it consumes    *)
(* (startTime, firstTokenTime, generatedText), and a record of what its     *)
(* stream did: yielded (the chunk contents the adapter yielded), emitted    *)
(* (the metrics object the adapter yielded), failure (the message of what   *)
(* was thrown) and exit (how the task left its loop).                       *)

\* RaceLane: the status a lane is rendered with
status(r) ==
    IF IsSome(r.error) THEN "error"
    ELSE IF IsSome(r.metrics) THEN "finish"
    ELSE IF r.responseText # "" THEN "green"
    ELSE "staging"

startDisabled(s) ==
    \/ ~ \E i \in DOMAIN s.selectedPairs :
            /\ s.enabledProviders[s.selectedPairs[i].providerId] # Some(FALSE)
            /\ s.apiKeys[s.selectedPairs[i].providerId] # ""
            /\ s.selectedPairs[i].modelId # ""
    \/ s.raceState = "countingDown"

resetDisabled(s) == s.isLoading \/ s.raceState = "countingDown"

\* variant: disabled providers are not filtered out
SelectSeqBy_all(seq, enabled) == seq

RECURSIVE SelectSeqBy(_, _)
SelectSeqBy(seq, enabled) ==
    IF seq = <<>> THEN <<>>
    ELSE IF enabled[Head(seq).providerId] # Some(FALSE)
         THEN <<Head(seq)>> \o SelectSeqBy(Tail(seq), enabled)
         ELSE SelectSeqBy(Tail(seq), enabled)

\* variant: the limit applies in every mode
tokenLimitReached_anyMode(cfg, tokenCount) ==
    cfg.tokenLimit # 0 /\ tokenCount >= cfg.tokenLimit

\* variant: the counter has to exceed the limit
tokenLimitReached_exceeds(cfg, tokenCount) ==
    cfg.mode = "token_limit" /\ cfg.tokenLimit # 0 /\ tokenCount > cfg.tokenLimit

tokenLimitReached(cfg, tokenCount) ==
    cfg.mode = "token_limit" /\ cfg.tokenLimit # 0 /\ tokenCount >= cfg.tokenLimit

\* variant: the elapsed time has to exceed the limit
timeLimitReached_exceeds(cfg, raceStartTime, time) ==
    cfg.mode = "time_limit" /\ cfg.timeLimit # 0
        /\ time - raceStartTime > cfg.timeLimit * MsPerSecond

\* elapsed = (Date.now() - raceStartTime) / 1000; elapsed >= timeLimit
timeLimitReached(cfg, raceStartTime, time) ==
    cfg.mode = "time_limit" /\ cfg.timeLimit # 0
        /\ time - raceStartTime >= cfg.timeLimit * MsPerSecond

syntheticMetrics(raceStartTime, finishTime, tokenCount) ==
    [startTime |-> raceStartTime,
     firstTokenTime |-> Some(raceStartTime + SynthOffset),
     finishTime |-> finishTime,
     tokenCount |-> tokenCount,
     inputTokens |-> None,
     outputTokens |-> tokenCount]

StreamEndedWithoutMetrics == "Stream ended without metrics"
ApiKeyNotSet == "API Key not set"

\* variant: sawMetrics is not consulted
afterLoop_noFlag(cfg, id, t, raceStartTime, time) ==
    IF cfg.mode = "token_limit" \/ cfg.mode = "time_limit"
    THEN <<[type |-> "FINISH_STREAM", resultId |-> id,
            metrics |-> syntheticMetrics(raceStartTime, time, t.tokenCount)]>>
    ELSE <<[type |-> "SET_ERROR", resultId |-> id,
            error |-> StreamEndedWithoutMetrics]>>

\* variant: metrics are synthesized in every mode
afterLoop_alwaysSynth(cfg, id, t, raceStartTime, time) ==
    IF t.sawMetrics THEN <<>>
    ELSE <<[type |-> "FINISH_STREAM", resultId |-> id,
            metrics |-> syntheticMetrics(raceStartTime, time, t.tokenCount)]>>

\* variant: outside the limit modes the error is dispatched whether or not
\* the metrics event was seen
afterLoop_errorIgnoresFlag(cfg, id, t, raceStartTime, time) ==
    IF cfg.mode = "token_limit" \/ cfg.mode = "time_limit"
    THEN IF t.sawMetrics THEN <<>>
         ELSE <<[type |-> "FINISH_STREAM", resultId |-> id,
                 metrics |-> syntheticMetrics(raceStartTime, time, t.tokenCount)]>>
    ELSE <<[type |-> "SET_ERROR", resultId |-> id,
            error |-> StreamEndedWithoutMetrics]>>

\* the code after the for-await loop: what the task dispatches on leaving it
afterLoop(cfg, id, t, raceStartTime, time) ==
    IF t.sawMetrics THEN <<>>
    ELSE IF cfg.mode = "token_limit" \/ cfg.mode = "time_limit"
         THEN <<[type |-> "FINISH_STREAM", resultId |-> id,
                 metrics |-> syntheticMetrics(raceStartTime, time, t.tokenCount)]>>
         ELSE <<[type |-> "SET_ERROR", resultId |-> id,
                 error |-> StreamEndedWithoutMetrics]>>

\* variant: the limits are checked for chunk events only
loopBody_chunkOnly(cfg, id, t, result, raceStartTime, time) ==
    IF result.type = "chunk" /\ tokenLimitReached(cfg, t.tokenCount)
    THEN LET u == [t EXCEPT !.pc = "done", !.exit = "token"]
         IN  [task |-> u, actions |-> afterLoop(cfg, id, u, raceStartTime, time)]
    ELSE IF result.type = "chunk" /\ timeLimitReached(cfg, raceStartTime, time)
    THEN LET u == [t EXCEPT !.pc = "done", !.exit = "time"]
         IN  [task |-> u, actions |-> afterLoop(cfg, id, u, raceStartTime, time)]
    ELSE IF result.type = "chunk"
    THEN [task |-> [t EXCEPT !.tokenCount = @ + 1],
          actions |-> <<[type |-> "RECEIVE_CHUNK", resultId |-> id,
                         chunk |-> result.content]>>]
    ELSE LET u == [t EXCEPT !.pc = "done", !.sawMetrics = TRUE, !.exit = "metrics"]
         IN  [task |-> u,
              actions |-> <<[type |-> "FINISH_STREAM", resultId |-> id,
                             metrics |-> result.data]>>
                          \o afterLoop(cfg, id, u, raceStartTime, time)]

\* variant: sawMetrics is not set when the metrics event is applied
loopBody_forgetsSawMetrics(cfg, id, t, result, raceStartTime, time) ==
    IF tokenLimitReached(cfg, t.tokenCount)
    THEN LET u == [t EXCEPT !.pc = "done", !.exit = "token"]
         IN  [task |-> u, actions |-> afterLoop(cfg, id, u, raceStartTime, time)]
    ELSE IF timeLimitReached(cfg, raceStartTime, time)
    THEN LET u == [t EXCEPT !.pc = "done", !.exit = "time"]
         IN  [task |-> u, actions |-> afterLoop(cfg, id, u, raceStartTime, time)]
    ELSE IF result.type = "chunk"
    THEN [task |-> [t EXCEPT !.tokenCount = @ + 1],
          actions |-> <<[type |-> "RECEIVE_CHUNK", resultId |-> id,
                         chunk |-> result.content]>>]
    ELSE LET u == [t EXCEPT !.pc = "done", !.exit = "metrics"]
         IN  [task |-> u,
              actions |-> <<[type |-> "FINISH_STREAM", resultId |-> id,
                             metrics |-> result.data]>>
                          \o afterLoop(cfg, id, u, raceStartTime, time)]

\* variant: the task goes on consuming after the metrics event
loopBody_continuesAfterMetrics(cfg, id, t, result, raceStartTime, time) ==
    IF tokenLimitReached(cfg, t.tokenCount)
    THEN LET u == [t EXCEPT !.pc = "done", !.exit = "token"]
         IN  [task |-> u, actions |-> afterLoop(cfg, id, u, raceStartTime, time)]
    ELSE IF timeLimitReached(cfg, raceStartTime, time)
    THEN LET u == [t EXCEPT !.pc = "done", !.exit = "time"]
         IN  [task |-> u, actions |-> afterLoop(cfg, id, u, raceStartTime, time)]
    ELSE IF result.type = "chunk"
    THEN [task |-> [t EXCEPT !.tokenCount = @ + 1],
          actions |-> <<[type |-> "RECEIVE_CHUNK", resultId |-> id,
                         chunk |-> result.content]>>]
    ELSE [task |-> [t EXCEPT !.sawMetrics = TRUE, !.exit = "metrics"],
          actions |-> <<[type |-> "FINISH_STREAM", resultId |-> id,
                         metrics |-> result.data]>>]

\* one iteration of the for-await loop on the event `result`, followed by the
\* code after the loop when the iteration leaves it
loopBody(cfg, id, t, result, raceStartTime, time) ==
    IF tokenLimitReached(cfg, t.tokenCount)
    THEN LET u == [t EXCEPT !.pc = "done", !.exit = "token"]
         IN  [task |-> u, actions |-> afterLoop(cfg, id, u, raceStartTime, time)]
    ELSE IF timeLimitReached(cfg, raceStartTime, time)
    THEN LET u == [t EXCEPT !.pc = "done", !.exit = "time"]
         IN  [task |-> u, actions |-> afterLoop(cfg, id, u, raceStartTime, time)]
    ELSE IF result.type = "chunk"
    THEN [task |-> [t EXCEPT !.tokenCount = @ + 1],
          actions |-> <<[type |-> "RECEIVE_CHUNK", resultId |-> id,
                         chunk |-> result.content]>>]
    ELSE \* result.type = "metrics": the sequence ends right after it
         LET u == [t EXCEPT !.pc = "done", !.sawMetrics = TRUE, !.exit = "metrics"]
         IN  [task |-> u,
              actions |-> <<[type |-> "FINISH_STREAM", resultId |-> id,
                             metrics |-> result.data]>>
                          \o afterLoop(cfg, id, u, raceStartTime, time)]

\* catch (e) { dispatch SET_ERROR e.message }
catchError(id, t, message) ==
    [task |-> [t EXCEPT !.pc = "done", !.exit = "throw", !.failure = Some(message)],
     actions |-> <<[type |-> "SET_ERROR", resultId |-> id, error |-> message]>>]

AllDone(ts) == \A i \in DOMAIN ts : ts[i].pc = "done"

\* variant: a lane that ended in error keeps the race from finishing
awaitAll_rejecting(s, ts) ==
    IF AllDone(ts) /\ \A i \in DOMAIN s.results : s.results[i].error = None
    THEN FINISH_COMPARISON(s) ELSE s

\* await Promise.all(...); dispatch FINISH_COMPARISON
awaitAll(s, ts) == IF AllDone(ts) THEN FINISH_COMPARISON(s) ELSE s

\* variant: the request is already under way when the lane is staged
NewTask_dispatched ==
    [pc |-> "streaming", tokenCount |-> 0, sawMetrics |-> FALSE, exit |-> "none",
     failure |-> None, startTime |-> Some(Epoch), firstTokenTime |-> None,
     generatedText |-> "", yielded |-> <<>>, emitted |-> None]

NewTask ==
    [pc |-> "pending", tokenCount |-> 0, sawMetrics |-> FALSE, exit |-> "none",
     failure |-> None, startTime |-> None, firstTokenTime |-> None,
     generatedText |-> "", yielded |-> <<>>, emitted |-> None]

\* variant: the stream is opened whether or not the provider has a key
launch_withoutKeyCheck(p, apiKeys, time) ==
    [task |-> [NewTask EXCEPT !.pc = "streaming", !.startTime = Some(time)],
     actions |-> <<>>]

\* providersToTest.map(async (p) => ...) up to each task's first await
launch(p, apiKeys, time) ==
    IF apiKeys[p.providerId] = ""
    THEN [task |-> [NewTask EXCEPT !.pc = "done", !.exit = "nokey",
                                   !.failure = Some(ApiKeyNotSet)],
          actions |-> <<[type |-> "SET_ERROR", resultId |-> resultId(p),
                         error |-> ApiKeyNotSet]>>]
    ELSE [task |-> [NewTask EXCEPT !.pc = "streaming", !.startTime = Some(time)],
          actions |-> <<>>]

RECURSIVE launchActions(_, _, _)
launchActions(ps, apiKeys, time) ==
    IF ps = <<>> THEN <<>>
    ELSE launch(Head(ps), apiKeys, time).actions \o launchActions(Tail(ps), apiKeys, time)

\* lines 189-255 up to the first suspension: read the config, take the race
\* start time, start every task
startRacing(s, h, time) ==
    LET ts == [i \in DOMAIN h.providersToTest |->
                  launch(h.providersToTest[i], h.snapshot.apiKeys, time).task]
        s1 == dispatchAll(s, <<[type |-> "SET_RACE_STATE", payload |-> "racing"],
                               [type |-> "SET_COUNTDOWN", payload |-> None]>>
                             \o launchActions(h.providersToTest, h.snapshot.apiKeys, time))
    IN  [state |-> awaitAll(s1, ts),
         tasks |-> ts,
         hrc |-> [h EXCEPT !.pc = IF AllDone(ts) THEN "idle" ELSE "racing",
                           !.raceStartTime = Some(time)]]

----------------------------------------------------------------------------
(* State after construction.  initialState has no key and no selection; the *)
(* settings actions (SET_API_KEY, TOGGLE_MODEL_SELECTION, SET_RACE_CONFIG)  *)
(* have already run and produced one of the set-ups below.                  *)

initialState ==
    [prompt |-> "Write a short story about a robot who discovers music.",
     isLoading |-> FALSE,
     apiKeys |-> [p \in Providers |-> ""],
     selectedPairs |-> <<>>,
     results |-> <<>>,
     raceState |-> "idle",
     countdownValue |-> None,
     enabledProviders |-> [p \in Providers |-> None],
     raceConfig |-> [mode |-> "drag", tokenLimit |-> 500, timeLimit |-> 30]]

KeySetups == {[p \in Providers |-> ApiKey],
              [p \in Providers |-> IF p = PairA.providerId THEN ApiKey ELSE ""],
              [p \in Providers |-> ""]}

\* SET_PROVIDER_ENABLED: nothing recorded, or the second provider switched off
EnabledSetups == {[p \in Providers |-> None],
                  [p \in Providers |-> IF p = PairB.providerId THEN Some(FALSE) ELSE None]}

\* the fields of the rendered state that the callback's closure reads
Closure(s) ==
    [prompt |-> s.prompt, apiKeys |-> s.apiKeys, selectedPairs |-> s.selectedPairs,
     enabledProviders |-> s.enabledProviders, raceConfig |-> s.raceConfig]

idleHrc ==
    [pc |-> "idle", snapshot |-> Closure(initialState), providersToTest |-> <<>>,
     raceStartTime |-> None]

noPrior == [hrc |-> idleHrc, tasks |-> <<>>]

\* no generate call is being followed on its own
noCall == [pc |-> "none"]

\* the Leaderboard component has not been rendered
noBoard == [rendered |-> FALSE]

Init ==
    /\ \E keys \in KeySetups, enabled \in EnabledSetups, cfg \in RaceConfigs :
           state = [initialState EXCEPT !.apiKeys = keys,
                                        !.enabledProviders = enabled,
                                        !.selectedPairs = <<PairA, PairB>>,
                                        !.raceConfig = cfg]
    /\ hrc = idleHrc
    /\ tasks = <<>>
    /\ now = Epoch
    /\ prior = noPrior
    /\ call = noCall
    /\ board = noBoard

----------------------------------------------------------------------------
(* Actions *)

Tick == /\ \E t \in Instants : t > now /\ now' = t
        /\ UNCHANGED <<state, hrc, tasks, prior, call, board>>

\* handleRunComparison is invoked (Start button) up to its first suspension.
\* hrc.pc = "idle" is the one-race-at-a-time environment, not a test of the code.
Start(reduceMotion) ==
    /\ hrc.pc = "idle"
    /\ ~startDisabled(state)
    /\ state.prompt # ""
    /\ LET selected == SelectSeqBy(state.selectedPairs, state.enabledProviders)
           h == [pc |-> "cd3", snapshot |-> Closure(state), providersToTest |-> selected,
                 raceStartTime |-> None]
           s1 == appReducer(state, [type |-> "START_COMPARISON", providersToTest |-> selected])
       IN  IF Len(selected) = 0
           THEN UNCHANGED <<state, hrc, tasks>>
           ELSE IF reduceMotion
           THEN LET r == startRacing(s1, h, now)
                IN  state' = r.state /\ hrc' = r.hrc /\ tasks' = r.tasks
           ELSE /\ state' = dispatchAll(s1, <<[type |-> "SET_RACE_STATE", payload |-> "countingDown"],
                                              [type |-> "SET_COUNTDOWN", payload |-> Some("3")]>>)
                /\ hrc' = h
                /\ tasks' = [i \in DOMAIN selected |-> NewTask]
    /\ UNCHANGED <<now, prior, call, board>>

StartReducedMotion == Start(TRUE)
StartWithCountdown == Start(FALSE)

\* a delay(700) of the countdown loop has elapsed
CountdownStep ==
    /\ hrc.pc \in {"cd3", "cd2", "cd1"}
    /\ LET nextPc == CASE hrc.pc = "cd3" -> "cd2" [] hrc.pc = "cd2" -> "cd1" [] OTHER -> "go"
           shown == CASE hrc.pc = "cd3" -> "2" [] hrc.pc = "cd2" -> "1" [] OTHER -> "Go!"
       IN  /\ state' = appReducer(state, [type |-> "SET_COUNTDOWN", payload |-> Some(shown)])
           /\ hrc' = [hrc EXCEPT !.pc = nextPc]
    /\ UNCHANGED <<tasks, now, prior, call, board>>

\* the delay(300) after 'Go!' has elapsed
CountdownDone ==
    /\ hrc.pc = "go"
    /\ LET r == startRacing(state, hrc, now)
       IN  state' = r.state /\ hrc' = r.hrc /\ tasks' = r.tasks
    /\ UNCHANGED <<now, prior, call, board>>

\* what a task does with one step of its stream: r is [task, actions]
Settle(i, r) ==
    LET ts == [tasks EXCEPT ![i] = r.task]
    IN  /\ tasks' = ts
        /\ state' = awaitAll(dispatchAll(state, r.actions), ts)
        /\ hrc' = [hrc EXCEPT !.pc = IF AllDone(ts) THEN "idle" ELSE "racing"]
        /\ UNCHANGED <<now, prior, call, board>>

Streaming(i) == hrc.pc = "racing" /\ i \in DOMAIN tasks /\ tasks[i].pc = "streaming"

\* variant: the limits are read from the configuration the page shows now
LaneChunk_liveConfig(i) ==
    /\ Streaming(i)
    /\ Len(tasks[i].yielded) < MaxChunks
    /\ LET content == DeltaAt(Len(tasks[i].yielded) + 1)
           t == generateOnContent(tasks[i], content, now)
       IN  Settle(i, loopBody(state.raceConfig, resultId(hrc.providersToTest[i]), t,
                              streamCompletion([type |-> "chunk", content |-> content]),
                              Val(hrc.raceStartTime), now))

\* the adapter decodes an event with a non-empty delta and yields a chunk
LaneChunk(i) ==
    /\ Streaming(i)
    /\ Len(tasks[i].yielded) < MaxChunks
    /\ LET content == DeltaAt(Len(tasks[i].yielded) + 1)
           t == generateOnContent(tasks[i], content, now)
       IN  Settle(i, loopBody(hrc.snapshot.raceConfig, resultId(hrc.providersToTest[i]), t,
                              streamCompletion([type |-> "chunk", content |-> content]),
                              Val(hrc.raceStartTime), now))

\* the adapter's decoder sequence ends and the adapter yields its metrics
LaneMetrics(i) ==
    /\ Streaming(i)
    /\ LET m == generateMetrics(tasks[i], hrc.snapshot.prompt, now)
           t == [tasks[i] EXCEPT !.emitted = Some(m)]
       IN  Settle(i, loopBody(hrc.snapshot.raceConfig, resultId(hrc.providersToTest[i]), t,
                              streamCompletion([type |-> "metrics", data |-> m]),
                              Val(hrc.raceStartTime), now))

\* the sequence handed to the loop completes without a metrics event
LaneEndsWithoutMetrics(i) ==
    /\ Streaming(i)
    /\ LET t == [tasks[i] EXCEPT !.pc = "done", !.exit = "end"]
       IN  Settle(i, [task |-> t,
                      actions |-> afterLoop(hrc.snapshot.raceConfig,
                                            resultId(hrc.providersToTest[i]), t,
                                            Val(hrc.raceStartTime), now)])

\* variant: the status is looked at after events have been yielded
LaneHttpError_afterChunks(i) ==
    /\ Streaming(i)
    /\ Settle(i, catchError(resultId(hrc.providersToTest[i]), tasks[i],
                            HttpErrorMessage(hrc.providersToTest[i].providerId, "401", "denied")))

\* the provider answers with a non-success status: generate throws before any event
LaneHttpError(i) ==
    /\ Streaming(i)
    /\ tasks[i].yielded = <<>>
    /\ Settle(i, catchError(resultId(hrc.providersToTest[i]), tasks[i],
                            HttpErrorMessage(hrc.providersToTest[i].providerId, "401", "denied")))

\* fetch or a read of the body rejects
LaneNetworkError(i) ==
    /\ Streaming(i)
    /\ Settle(i, catchError(resultId(hrc.providersToTest[i]), tasks[i], "Failed to fetch"))

\* Reset button of the toolbar
Reset ==
    /\ ~resetDisabled(state)
    /\ state' = appReducer(state, [type |-> "RESET_RACE"])
    /\ UNCHANGED <<hrc, tasks, now, prior, call, board>>

Lanes == 1..2

Next ==
    \/ Tick
    \/ StartReducedMotion
    \/ StartWithCountdown
    \/ CountdownStep
    \/ CountdownDone
    \/ \E i \in Lanes : LaneChunk(i)
    \/ \E i \in Lanes : LaneMetrics(i)
    \/ \E i \in Lanes : LaneEndsWithoutMetrics(i)
    \/ \E i \in Lanes : LaneHttpError(i)
    \/ \E i \in Lanes : LaneNetworkError(i)
    \/ Reset

Spec == Init /\ [][Next]_vars

----------------------------------------------------------------------------
(* Re-entrant invocations.  The Start button is disabled by startDisabled   *)
(* and an empty prompt only, neither of which tests isLoading or 'racing':  *)
(* handleRunComparison can be invoked while an earlier invocation is still  *)
(* awaiting its lanes.  Nothing stops the earlier invocation: its tasks go  *)
(* on dispatching with the same result ids and it dispatches                *)
(* FINISH_COMPARISON once they are done.  SpecReentrant adds this to Spec,  *)
(* with at most two invocations in flight.                                  *)

\* Start is pressed while the lanes of the current invocation are streaming
Restart(reduceMotion) ==
    /\ hrc.pc = "racing"
    /\ prior.hrc.pc = "idle"
    /\ ~startDisabled(state)
    /\ state.prompt # ""
    /\ LET selected == SelectSeqBy(state.selectedPairs, state.enabledProviders)
           h == [pc |-> "cd3", snapshot |-> Closure(state), providersToTest |-> selected,
                 raceStartTime |-> None]
           s1 == appReducer(state, [type |-> "START_COMPARISON", providersToTest |-> selected])
       IN  /\ Len(selected) # 0
           /\ prior' = [hrc |-> hrc, tasks |-> tasks]
           /\ IF reduceMotion
              THEN LET r == startRacing(s1, h, now)
                   IN  state' = r.state /\ hrc' = r.hrc /\ tasks' = r.tasks
              ELSE /\ state' = dispatchAll(s1, <<[type |-> "SET_RACE_STATE", payload |-> "countingDown"],
                                                 [type |-> "SET_COUNTDOWN", payload |-> Some("3")]>>)
                   /\ hrc' = h
                   /\ tasks' = [i \in DOMAIN selected |-> NewTask]
    /\ UNCHANGED <<now, call, board>>

RestartReducedMotion == Restart(TRUE)
RestartWithCountdown == Restart(FALSE)

PriorStreaming(i) ==
    prior.hrc.pc = "racing" /\ i \in DOMAIN prior.tasks /\ prior.tasks[i].pc = "streaming"

\* a step of a task of the earlier invocation; the invocation is over once
\* its Promise.all has resolved and FINISH_COMPARISON is dispatched
PriorSettle(i, r) ==
    LET ts == [prior.tasks EXCEPT ![i] = r.task]
    IN  /\ prior' = IF AllDone(ts) THEN noPrior ELSE [prior EXCEPT !.tasks = ts]
        /\ state' = awaitAll(dispatchAll(state, r.actions), ts)
        /\ UNCHANGED <<hrc, tasks, now, call, board>>

PriorLaneChunk(i) ==
    /\ PriorStreaming(i)
    /\ Len(prior.tasks[i].yielded) < MaxChunks
    /\ LET content == DeltaAt(Len(prior.tasks[i].yielded) + 1)
           t == generateOnContent(prior.tasks[i], content, now)
       IN  PriorSettle(i, loopBody(prior.hrc.snapshot.raceConfig,
                                   resultId(prior.hrc.providersToTest[i]), t,
                                   streamCompletion([type |-> "chunk", content |-> content]),
                                   Val(prior.hrc.raceStartTime), now))

PriorLaneMetrics(i) ==
    /\ PriorStreaming(i)
    /\ LET m == generateMetrics(prior.tasks[i], prior.hrc.snapshot.prompt, now)
           t == [prior.tasks[i] EXCEPT !.emitted = Some(m)]
       IN  PriorSettle(i, loopBody(prior.hrc.snapshot.raceConfig,
                                   resultId(prior.hrc.providersToTest[i]), t,
                                   streamCompletion([type |-> "metrics", data |-> m]),
                                   Val(prior.hrc.raceStartTime), now))

PriorLaneNetworkError(i) ==
    /\ PriorStreaming(i)
    /\ PriorSettle(i, catchError(resultId(prior.hrc.providersToTest[i]), prior.tasks[i],
                                 "Failed to fetch"))

\* both providers keyed and enabled, a token-limited race cut after one
\* chunk; the clock is not advanced
InitReentrant ==
    /\ state = [initialState EXCEPT
                    !.apiKeys = [p \in Providers |-> ApiKey],
                    !.selectedPairs = <<PairA, PairB>>,
                    !.raceConfig = [mode |-> "token_limit", tokenLimit |-> 1,
                                    timeLimit |-> 1]]
    /\ hrc = idleHrc
    /\ tasks = <<>>
    /\ now = Epoch
    /\ prior = noPrior
    /\ call = noCall
    /\ board = noBoard

NextReentrant ==
    \/ StartReducedMotion
    \/ StartWithCountdown
    \/ CountdownStep
    \/ CountdownDone
    \/ \E i \in Lanes : LaneChunk(i)
    \/ \E i \in Lanes : LaneMetrics(i)
    \/ \E i \in Lanes : LaneEndsWithoutMetrics(i)
    \/ \E i \in Lanes : LaneHttpError(i)
    \/ \E i \in Lanes : LaneNetworkError(i)
    \/ Reset
    \/ RestartReducedMotion
    \/ RestartWithCountdown
    \/ \E i \in Lanes : PriorLaneChunk(i)
    \/ \E i \in Lanes : PriorLaneMetrics(i)
    \/ \E i \in Lanes : PriorLaneNetworkError(i)

SpecReentrant == InitReentrant /\ [][NextReentrant]_vars

----------------------------------------------------------------------------
(* Properties of a race *)

cfg == hrc.snapshot.raceConfig
Live(i) == i \in DOMAIN state.results /\ i \in DOMAIN tasks
lane(i) == state.results[i]
Done(i) == Live(i) /\ tasks[i].pc = "done"
Unlimited == cfg.mode \in {"drag", "free_for_all"}

RECURSIVE ConcatAll(_)
ConcatAll(chunks) == IF chunks = <<>> THEN "" ELSE Head(chunks) \o ConcatAll(Tail(chunks))

\* the error a lane must show given what its own stream did
OwnError(t) ==
    IF IsSome(t.failure) THEN t.failure
    ELSE IF t.exit = "end" /\ Unlimited THEN Some(StreamEndedWithoutMetrics)
    ELSE None

LaunchStep == StartReducedMotion \/ CountdownDone
ThrowStep(i) == Streaming(i) /\ tasks'[i].exit = "throw"
SameLane(j) ==
    /\ state'.results[j].responseText = state.results[j].responseText
    /\ state'.results[j].metrics = state.results[j].metrics
    /\ state'.results[j].error = state.results[j].error

\* C1: a lane's failure (missing key, HTTP error, network failure, exception
\* while streaming) sets that lane's error to the failure's message and leaves
\* the text, metrics, error and task of every sibling lane as they were; a
\* lane never shows another error than the one its own stream produced.
C1_LaneFailureIsolated ==
    /\ [](\A j \in Lanes : Live(j) =>
            lane(j).error = (IF tasks[j].pc = "done" THEN OwnError(tasks[j]) ELSE None))
    /\ [][/\ \A i \in Lanes : ThrowStep(i) =>
                /\ state'.results[i].error = tasks'[i].failure
                /\ IsSome(tasks'[i].failure)
                /\ \A j \in Lanes \ {i} : Live(j) => SameLane(j) /\ tasks'[j] = tasks[j]
          /\ LaunchStep => \A i \in DOMAIN tasks' :
                IF tasks'[i].exit = "nokey"
                THEN state'.results[i].error = Some(ApiKeyNotSet)
                ELSE /\ tasks'[i].pc = "streaming"
                     /\ state'.results[i].error = None
                     /\ state'.results[i].metrics = None
                     /\ state'.results[i].responseText = ""]_vars

C1_Witness ==
    \E i, j \in Lanes :
        /\ Done(i) /\ tasks[i].exit = "throw" /\ lane(i).error = tasks[i].failure
        /\ Done(j) /\ tasks[j].exit = "metrics" /\ lane(j).error = None
        /\ lane(j).metrics = tasks[j].emitted /\ lane(j).responseText # ""

LanesSettled ==
    /\ state.results # <<>>
    /\ \A i \in DOMAIN state.results :
          IsSome(state.results[i].metrics) \/ IsSome(state.results[i].error)

\* C2: as soon as every lane of a started race has metrics or an error, the
\* global race state is finished, whatever the number of lanes that ended in
\* error.
C2_SettledRaceFinishes == LanesSettled => state.raceState = "finished"

C2_Witness ==
    /\ LanesSettled /\ state.raceState = "finished"
    /\ \A i \in DOMAIN state.results : IsSome(state.results[i].error)

Elapsed == now - Val(hrc.raceStartTime)
ChunkArrives(i) == Streaming(i) /\ tasks'[i].yielded # tasks[i].yielded
MetricsArrives(i) == Streaming(i) /\ tasks'[i].emitted # tasks[i].emitted
TextGrows(i) == state'.results[i].responseText # state.results[i].responseText

TimeLimited == cfg.mode = "time_limit" /\ cfg.timeLimit > 0
PastLimit == Elapsed >= cfg.timeLimit * MsPerSecond

Synthesized(i) == IsSome(lane(i).metrics) /\ lane(i).metrics # tasks[i].emitted

C10_MetricsTimesOrdered ==
    \A i \in Lanes : (Live(i) /\ IsSome(lane(i).metrics)) =>
        LET m == Val(lane(i).metrics)
        IN  IsSome(m.firstTokenTime) =>
                m.startTime <= Val(m.firstTokenTime) /\ Val(m.firstTokenTime) <= m.finishTime

HasKey(i) == hrc.snapshot.apiKeys[hrc.providersToTest[i].providerId] # ""

Disabled(providerId) == state.enabledProviders[providerId] = Some(FALSE)
NoEligiblePair ==
    ~ \E i \in DOMAIN state.selectedPairs :
          /\ ~Disabled(state.selectedPairs[i].providerId)
          /\ state.apiKeys[state.selectedPairs[i].providerId] # ""
          /\ state.selectedPairs[i].modelId # ""
InvocationStep == hrc.pc = "idle" /\ hrc' # hrc

RaceStatePath ==
    {<<"idle", "countingDown">>, <<"countingDown", "racing">>,
     <<"idle", "racing">>, <<"racing", "finished">>}

\* C13 as stated: the global race state changes only along
\* idle -> countingDown -> racing -> finished (idle -> racing when the
\* countdown is skipped), or to idle by a reset.
C13_RaceStateTransitions ==
    [][state'.raceState # state.raceState =>
          \/ <<state.raceState, state'.raceState>> \in RaceStatePath
          \/ state'.raceState = "idle"]_vars

\* the forward moves of a lane's status (RaceLane names racing 'green' and
\* finished 'finish'); a lane may skip 'green' when it settles without text
StatusForward ==
    {<<"staging", "green">>, <<"staging", "finish">>, <<"staging", "error">>,
     <<"green", "finish">>, <<"green", "error">>}

InFlight ==
    \/ \E i \in DOMAIN tasks : tasks[i].pc = "streaming"
    \/ \E i \in DOMAIN prior.tasks : prior.tasks[i].pc = "streaming"

\* C15 as stated: a reset triggered while lanes are in flight aborts every
\* in-flight adapter call: after the reset step no task is still consuming
\* a stream.
C15_ResetAbortsStreams ==
    [][(Reset /\ InFlight) =>
          /\ \A i \in DOMAIN tasks' : tasks'[i].pc # "streaming"
          /\ \A i \in DOMAIN prior'.tasks : prior'.tasks[i].pc # "streaming"]_vars

\* C16 as stated: after a reset issued while lanes are in flight, the text,
\* metrics and error recorded for each lane before the reset are still in
\* the result set, and every lane is marked not loading.
C16_ResetKeepsPartialResults ==
    [][(Reset /\ InFlight) =>
          \A i \in DOMAIN state.results :
              /\ i \in DOMAIN state'.results
              /\ state'.results[i].responseText = state.results[i].responseText
              /\ state'.results[i].metrics = state.results[i].metrics
              /\ state'.results[i].error = state.results[i].error
              /\ ~state'.results[i].isLoading]_vars

StartDispatched == state'.isLoading /\ ~state.isLoading

\* C17 as stated: once a reset has put the race back to idle with its results
\* cleared, the race state stays idle and the result set stays empty until
\* the next start: no late countdown step, chunk, terminal event or
\* race-completion event of the abandoned race changes them.
C17_ResetIsFinal ==
    [][(state.raceState = "idle" /\ state.results = <<>> /\ ~StartDispatched) =>
          state'.raceState = "idle" /\ state'.results = <<>>]_vars

Staged(i) ==
    /\ lane(i).responseText = "" /\ lane(i).metrics = None /\ lane(i).error = None
    /\ lane(i).isLoading

Settled(r) == IsSome(r.metrics) \/ IsSome(r.error)

TerminalCount(as) ==
    Cardinality({k \in DOMAIN as : as[k].type \in {"FINISH_STREAM", "SET_ERROR"}})

\* what the task of lane i dispatches on each event its stream can produce next
NextDispatches(i) ==
    LET id == resultId(hrc.providersToTest[i])
        start == Val(hrc.raceStartTime)
        m == generateMetrics(tasks[i], hrc.snapshot.prompt, now)
        ended == [tasks[i] EXCEPT !.pc = "done", !.exit = "end"]
    IN  {loopBody(cfg, id, tasks[i], [type |-> "chunk", content |-> "a"], start, now),
         loopBody(cfg, id, tasks[i], [type |-> "metrics", data |-> m], start, now),
         [task |-> ended, actions |-> afterLoop(cfg, id, ended, start, now)],
         catchError(id, tasks[i], "Failed to fetch")}

----------------------------------------------------------------------------
(* Model selection and lane ids.  SpecSelection follows the reducer alone:  *)
(* the sidebar toggles (provider, model) pairs, START_COMPARISON stages one *)
(* lane per selected pair, and chunk, metrics and error actions are         *)
(* dispatched to a staged lane by its id.                                   *)

MaxSelected == 2      \* pairs selected at the same time

\* a model name offered by two providers, and one that extends another by a
\* hyphenated suffix
SelectablePairs ==
    {Pair("zhipu", "glm-4"), Pair("zhipu", "glm-4-air"), Pair("cerebras", "glm-4")}

InitSelection ==
    /\ state = [initialState EXCEPT !.apiKeys = [p \in Providers |-> ApiKey]]
    /\ hrc = idleHrc
    /\ tasks = <<>>
    /\ now = Epoch
    /\ prior = noPrior
    /\ call = noCall
    /\ board = noBoard

\* the pair a staged lane was created for
LanePair(k) == Pair(state.results[k].providerName, state.results[k].modelName)

ToggleModelSelection ==
    /\ \E p \in SelectablePairs :
          /\ \/ \E i \in DOMAIN state.selectedPairs : state.selectedPairs[i] = p
             \/ Len(state.selectedPairs) < MaxSelected
          /\ state' = appReducer(state, [type |-> "TOGGLE_MODEL_SELECTION", payload |-> p])
    /\ UNCHANGED <<hrc, tasks, now, prior, call, board>>

StageLanes ==
    /\ state.selectedPairs # <<>>
    /\ state' = appReducer(state,
                    [type |-> "START_COMPARISON",
                     providersToTest |-> SelectSeqBy(state.selectedPairs, state.enabledProviders)])
    /\ UNCHANGED <<hrc, tasks, now, prior, call, board>>

ChunkToLane(k) ==
    /\ k \in DOMAIN state.results
    /\ state.results[k].responseText = ""
    /\ state' = appReducer(state, [type |-> "RECEIVE_CHUNK",
                                   resultId |-> resultId(LanePair(k)),
                                   chunk |-> DeltaAt(k)])
    /\ UNCHANGED <<hrc, tasks, now, prior, call, board>>

MetricsToLane(k) ==
    /\ k \in DOMAIN state.results
    /\ state.results[k].metrics = None
    /\ state' = appReducer(state, [type |-> "FINISH_STREAM",
                                   resultId |-> resultId(LanePair(k)),
                                   metrics |-> syntheticMetrics(now, now, k)])
    /\ UNCHANGED <<hrc, tasks, now, prior, call, board>>

ErrorToLane(k) ==
    /\ k \in DOMAIN state.results
    /\ state.results[k].error = None
    /\ state' = appReducer(state, [type |-> "SET_ERROR",
                                   resultId |-> resultId(LanePair(k)),
                                   error |-> "Failed to fetch"])
    /\ UNCHANGED <<hrc, tasks, now, prior, call, board>>

NextSelection ==
    \/ ToggleModelSelection
    \/ StageLanes
    \/ \E k \in 1..MaxSelected : ChunkToLane(k)
    \/ \E k \in 1..MaxSelected : MetricsToLane(k)
    \/ \E k \in 1..MaxSelected : ErrorToLane(k)

SpecSelection == InitSelection /\ [][NextSelection]_vars

Changed(i) == state'.results[i] # state.results[i]

\* C21: distinct (provider, model) pairs have distinct lane ids
\* "{providerId}-{modelId}"; a selection never holds a pair twice, so the
\* staged lanes have pairwise distinct ids, each the id of its own pair, and
\* a chunk, metrics or error action addressed to one lane changes no other
\* lane.
C21_LaneIdsUnique ==
    /\ [](/\ \A p, q \in SelectablePairs : p # q => resultId(p) # resultId(q)
          /\ \A i, j \in DOMAIN state.selectedPairs :
                i # j => state.selectedPairs[i] # state.selectedPairs[j]
          /\ \A i, j \in DOMAIN state.results :
                i # j => state.results[i].id # state.results[j].id
          /\ \A i \in DOMAIN state.results :
                state.results[i].id = resultId(LanePair(i)))
    /\ [][\A k \in 1..MaxSelected :
              (ChunkToLane(k) \/ MetricsToLane(k) \/ ErrorToLane(k)) =>
                  /\ Changed(k)
                  /\ DOMAIN state'.results = DOMAIN state.results
                  /\ \A i \in DOMAIN state.results \ {k} : ~Changed(i)]_vars

C21_Witness ==
    \E i, j \in DOMAIN state.results :
        /\ state.results[i].providerName = state.results[j].providerName
        /\ state.results[i].modelName = "glm-4"
        /\ state.results[j].modelName = "glm-4-air"
        /\ state.results[i].responseText # "" /\ IsSome(state.results[i].metrics)
        /\ state.results[j].responseText = "" /\ IsSome(state.results[j].error)
        /\ state.results[i].error = None /\ state.results[j].metrics = None

HttpFailure(i) ==
    Some(HttpErrorMessage(hrc.providersToTest[i].providerId, "401", "denied"))

----------------------------------------------------------------------------
(* Provider adapters: the stream decoders and generate.  Text that is split *)
(* or scanned is a sequence of one-character strings.                       *)

MaxSegments == 3      \* data segments of one response body at most
MaxReads == 2         \* read results the body is delivered in at most

ReadMs == 1           \* the clock advances by this much while a read is awaited

AdapterProviders == {"zhipu", "moonshot", "cerebras"}

AdapterPair(provider) ==
    CASE provider = "zhipu" -> Pair("zhipu", "glm-4")
      [] provider = "moonshot" -> Pair("moonshot", "kimi-k2")
      [] OTHER -> Pair("cerebras", "llama3.1-8b")

\* a segment carries an event with a text delta, an event without one, the
\* end marker, or a payload cut off before its closing brace
SegmentKinds == {"delta", "empty", "done", "bad"}

Letters == <<"a", "b", "c", "d", "e">>
Range(f) == {f[x] : x \in DOMAIN f}
\* the text delta of the event in the k-th segment
SegmentDelta(k) == Letters[((k - 1) % Len(Letters)) + 1]

DataPrefix == <<"d", "a", "t", "a", ":", " ">>
Delimiter == <<"\n", "\n">>
DoneMarker == <<"[", "D", "O", "N", "E", "]">>
Whitespace == {" ", "\n"}

\* JSON documents are scaled down to "{x}" (an event whose delta is x) and
\* "{}" (an event without a delta)
Payload(kind, k) ==
    CASE kind = "delta" -> <<"{", SegmentDelta(k), "}">>
      [] kind = "empty" -> <<"{", "}">>
      [] kind = "done" -> DoneMarker
      [] OTHER -> <<"{", SegmentDelta(k)>>

RECURSIVE StreamFrom(_, _)
StreamFrom(kinds, k) ==
    IF k > Len(kinds) THEN <<>>
    ELSE DataPrefix \o Payload(kinds[k], k) \o Delimiter \o StreamFrom(kinds, k + 1)

StreamOf(kinds) == StreamFrom(kinds, 1)

Count(kinds, kind) == Cardinality({k \in DOMAIN kinds : kinds[k] = kind})

\* the response bodies: up to MaxSegments segments, each kind other than
\* "delta" at most once
Streams ==
    UNION {{kinds \in [1..n -> SegmentKinds] :
                \A kind \in SegmentKinds \ {"delta"} : Count(kinds, kind) <= 1}
           : n \in 1..MaxSegments}

\* the sets of at most k of the given positions, after which a text is cut
RECURSIVE CutSets(_, _)
CutSets(positions, k) ==
    IF k = 0 THEN {{}}
    ELSE LET smaller == CutSets(positions, k - 1)
         IN  smaller \cup {S \cup {c} : S \in smaller, c \in positions}

RECURSIVE ReadsFrom(_, _, _)
ReadsFrom(chars, start, cuts) ==
    IF cuts = {} THEN <<SubSeq(chars, start, Len(chars))>>
    ELSE LET c == CHOOSE x \in cuts : \A y \in cuts : x <= y
         IN  <<SubSeq(chars, start, c)>> \o ReadsFrom(chars, c + 1, cuts \ {c})

\* every way of delivering a text in 1..MaxReads non-empty reads
Deliveries(chars) ==
    {ReadsFrom(chars, 1, cuts) : cuts \in CutSets(1..(Len(chars) - 1), MaxReads - 1)}

\* the number of characters up to the end of the k-th segment
SegmentEnd(kinds, k) == Len(StreamOf(SubSeq(kinds, 1, k)))

\* the deliveries that are cut between segments or between the two line
\* feeds that end a segment
BoundaryCuts(kinds) ==
    {c \in UNION {{SegmentEnd(kinds, k) - 1, SegmentEnd(kinds, k)} : k \in DOMAIN kinds} :
        c < Len(StreamOf(kinds))}

BoundaryDeliveries(kinds) ==
    {ReadsFrom(StreamOf(kinds), 1, cuts) : cuts \in CutSets(BoundaryCuts(kinds), MaxReads - 1)}

RECURSIVE Flatten(_)
Flatten(reads) == IF reads = <<>> THEN <<>> ELSE Head(reads) \o Flatten(Tail(reads))

(* String functions of the language *)

RECURSIVE splitFrom(_, _)
splitFrom(s, cur) ==
    IF s = <<>> THEN <<cur>>
    ELSE IF Len(s) >= 2 /\ SubSeq(s, 1, 2) = Delimiter
    THEN <<cur>> \o splitFrom(SubSeq(s, 3, Len(s)), <<>>)
    ELSE splitFrom(Tail(s), Append(cur, Head(s)))

\* s.split('\n\n')
split(s) == splitFrom(s, <<>>)

startsWith(s, prefix) == Len(s) >= Len(prefix) /\ SubSeq(s, 1, Len(prefix)) = prefix
substring(s, from) == SubSeq(s, from + 1, Len(s))

RECURSIVE trimStart(_)
trimStart(s) == IF s # <<>> /\ Head(s) \in Whitespace THEN trimStart(Tail(s)) ELSE s
RECURSIVE trimEnd(_)
trimEnd(s) ==
    IF s # <<>> /\ s[Len(s)] \in Whitespace THEN trimEnd(SubSeq(s, 1, Len(s) - 1)) ELSE s
trim(s) == trimEnd(trimStart(s))

\* JSON.parse: the parsed event (its choices[0].delta.content), or None when
\* the text is not a document; white space around a document is allowed
JSONparse(s) ==
    LET t == trim(s)
    IN  IF t = <<"{", "}">> THEN Some([content |-> ""])
        ELSE IF Len(t) = 3 /\ t[1] = "{" /\ t[3] = "}" /\ t[2] \in Range(Letters)
        THEN Some([content |-> t[2]])
        ELSE None

(* Stream decoders.  One application decodes one read result: objects are   *)
(* the values yielded, returned tells that the end marker was met.          *)

\* for (const part of parts) { ... } of the Cerebras decoder
RECURSIVE streamSSE_parts(_)
streamSSE_parts(parts) ==
    IF parts = <<>> THEN [objects |-> <<>>, returned |-> FALSE]
    ELSE LET part == Head(parts)
             rest == streamSSE_parts(Tail(parts))
         IN  IF startsWith(part, DataPrefix)
             THEN LET data == trim(substring(part, 6))
                  IN  IF data = DoneMarker
                      THEN [objects |-> <<>>, returned |-> TRUE]
                      ELSE IF IsSome(JSONparse(data))
                      THEN [rest EXCEPT !.objects = <<Val(JSONparse(data))>> \o @]
                      ELSE rest
             ELSE rest

\* variant: the text after the last delimiter is not kept for the next read
streamSSE_unbuffered(buffer, value) ==
    LET parts == split(value)
        r == streamSSE_parts(SubSeq(parts, 1, Len(parts) - 1))
    IN  [buffer |-> <<>>, objects |-> r.objects, returned |-> r.returned]

\* Cerebras decoder: buffer += value; parts = buffer.split; buffer = parts.pop()
streamSSE(buffer, value) ==
    LET parts == split(buffer \o value)
        r == streamSSE_parts(SubSeq(parts, 1, Len(parts) - 1))
    IN  [buffer |-> parts[Len(parts)], objects |-> r.objects, returned |-> r.returned]

\* for (const line of lines) { ... } of the Zhipu and Moonshot decoders
RECURSIVE streamOpenAIResponse_lines(_)
streamOpenAIResponse_lines(lines) ==
    IF lines = <<>> THEN [objects |-> <<>>, returned |-> FALSE]
    ELSE LET line == Head(lines)
             rest == streamOpenAIResponse_lines(Tail(lines))
         IN  IF startsWith(line, DataPrefix)
             THEN LET data == substring(line, 6)
                  IN  IF trim(data) = DoneMarker
                      THEN [objects |-> <<>>, returned |-> TRUE]
                      ELSE IF IsSome(JSONparse(data))
                      THEN [rest EXCEPT !.objects = <<Val(JSONparse(data))>> \o @]
                      ELSE rest
             ELSE rest

\* Zhipu and Moonshot decoder: chunk = decode(value); lines = chunk.split
streamOpenAIResponse(buffer, value) ==
    LET r == streamOpenAIResponse_lines(split(value))
    IN  [buffer |-> buffer, objects |-> r.objects, returned |-> r.returned]

decoderRead(provider, buffer, value) ==
    IF provider = "cerebras" THEN streamSSE(buffer, value)
    ELSE streamOpenAIResponse(buffer, value)

\* a decoder applied to a body that arrives in one read
DecodeWhole(provider, chars) == decoderRead(provider, <<>>, chars).objects

NoResponseBody == "No response body"
ReadFailed == "network error"

(* A decoder on its own: the body of a successful response is read to its   *)
(* end.  call.decoded are the objects the decoder has yielded.              *)

InitDecoder ==
    /\ state = initialState /\ hrc = idleHrc /\ tasks = <<>> /\ now = Epoch /\ prior = noPrior
    /\ board = noBoard
    /\ \E provider \in AdapterProviders, kinds \in Streams :
          \E reads \in Deliveries(StreamOf(kinds)) :
              call = [pc |-> "reading", provider |-> provider, segments |-> kinds,
                      reads |-> reads, consumed |-> 0, buffer |-> <<>>, decoded |-> <<>>]

\* reader.read() resolves with a value; the decoder yields what it decodes
DecoderRead ==
    /\ call.pc = "reading"
    /\ call.consumed < Len(call.reads)
    /\ LET d == decoderRead(call.provider, call.buffer, call.reads[call.consumed + 1])
       IN  call' = [call EXCEPT !.consumed = @ + 1,
                                !.buffer = d.buffer,
                                !.decoded = @ \o d.objects,
                                !.pc = IF d.returned THEN "returned" ELSE "reading"]
    /\ UNCHANGED <<state, hrc, tasks, now, prior, board>>

\* reader.read() resolves with done: the decoder's loop is left
DecoderClose ==
    /\ call.pc = "reading"
    /\ call.consumed = Len(call.reads)
    /\ call' = [call EXCEPT !.pc = "closed"]
    /\ UNCHANGED <<state, hrc, tasks, now, prior, board>>

NextDecoder == DecoderRead \/ DecoderClose

SpecDecoder == InitDecoder /\ [][NextDecoder]_vars

(* One generate call and the lane that consumes it.  call.events are the    *)
(* events generate has yielded and call.at the instants of the yields;      *)
(* call.decoded are the objects its decoder has yielded.                    *)

HttpStatuses == {"401", "500"}

\* free_for_all never leaves the loop early; token_limit 1 leaves it at the
\* event after the first chunk
AdapterConfigs ==
    {[mode |-> "free_for_all", tokenLimit |-> 1, timeLimit |-> 1],
     [mode |-> "token_limit", tokenLimit |-> 1, timeLimit |-> 1]}

Responses ==
    {[ok |-> FALSE, status |-> st, text |-> "denied", hasBody |-> FALSE,
      segments |-> <<>>, reads |-> <<>>] : st \in HttpStatuses}
    \cup {[ok |-> TRUE, status |-> "200", text |-> "", hasBody |-> FALSE,
           segments |-> <<>>, reads |-> <<>>]}
    \cup UNION {{[ok |-> TRUE, status |-> "200", text |-> "", hasBody |-> TRUE,
                  segments |-> kinds, reads |-> reads]
                 : reads \in BoundaryDeliveries(kinds)} : kinds \in Streams}

InitAdapter ==
    /\ \E provider \in AdapterProviders, config \in AdapterConfigs, response \in Responses :
          LET s0 == [initialState EXCEPT
                        !.apiKeys = [p \in AdapterProviders |-> ApiKey],
                        !.enabledProviders = [p \in AdapterProviders |-> None],
                        !.selectedPairs = <<AdapterPair(provider)>>,
                        !.raceConfig = config]
              h == [pc |-> "cd3", snapshot |-> Closure(s0),
                    providersToTest |-> <<AdapterPair(provider)>>, raceStartTime |-> None]
              r == startRacing(appReducer(s0, [type |-> "START_COMPARISON",
                                               providersToTest |-> h.providersToTest]),
                               h, Epoch)
          IN  /\ state = r.state /\ hrc = r.hrc /\ tasks = r.tasks
              /\ call = [pc |-> "fetching", provider |-> provider, response |-> response,
                         consumed |-> 0, buffer |-> <<>>, decoded |-> <<>>,
                         events |-> <<>>, at |-> <<>>, end |-> "none", thrown |-> None]
    /\ now = Epoch
    /\ prior = noPrior
    /\ board = noBoard

\* the lane's loop is handed an event that generate yields at `time`
deliver(acc, t, event, time) ==
    LET r == loopBody(hrc.snapshot.raceConfig, resultId(hrc.providersToTest[1]), t,
                      streamCompletion(event), Val(hrc.raceStartTime), time)
    IN  [acc EXCEPT !.task = r.task,
                    !.state = dispatchAll(acc.state, r.actions),
                    !.events = Append(@, event),
                    !.at = Append(@, time)]

\* for await (const chunk of <decoder>) { content = ...; if (content) {...} };
\* the decoder and generate are returned from once the lane has left its loop
RECURSIVE forAwait(_, _, _)
forAwait(chunks, acc, time) ==
    IF chunks = <<>> \/ acc.task.pc = "done" THEN acc
    ELSE LET chunk == Head(chunks)
             a1 == [acc EXCEPT !.decoded = Append(@, chunk)]
         IN  IF chunk.content # ""
             THEN forAwait(Tail(chunks),
                           deliver(a1, generateOnContent(acc.task, chunk.content, time),
                                   [type |-> "chunk", content |-> chunk.content], time),
                           time)
             ELSE forAwait(Tail(chunks), a1, time)

\* the code of generate after its loop
yieldMetrics(acc, time) ==
    LET m == generateMetrics(acc.task, hrc.snapshot.prompt, time)
    IN  deliver(acc, [acc.task EXCEPT !.emitted = Some(m)],
                [type |-> "metrics", data |-> m], time)

Acc == [task |-> tasks[1], state |-> state, events |-> call.events, at |-> call.at,
        decoded |-> call.decoded]

\* what one step of the call leaves behind
Advance(acc, c) ==
    /\ tasks' = <<acc.task>>
    /\ state' = awaitAll(acc.state, <<acc.task>>)
    /\ hrc' = [hrc EXCEPT !.pc = IF acc.task.pc = "done" THEN "idle" ELSE "racing"]
    /\ call' = [c EXCEPT !.events = acc.events, !.at = acc.at, !.decoded = acc.decoded]
    /\ now' = now + ReadMs
    /\ UNCHANGED <<prior, board>>

\* generate or its decoder throws: the catch of the lane's task
Throw(message) ==
    LET r == catchError(resultId(hrc.providersToTest[1]), tasks[1], message)
    IN  Advance([Acc EXCEPT !.task = r.task, !.state = dispatchAll(state, r.actions)],
                [call EXCEPT !.pc = "failed", !.thrown = Some(message)])

\* variant: a response without a body is read like an empty one
Respond_ignoresMissingBody ==
    /\ call.pc = "fetching"
    /\ IF ~call.response.ok
       THEN Throw(HttpErrorMessage(call.provider, call.response.status, call.response.text))
       ELSE Advance(Acc, [call EXCEPT !.pc = "reading"])

\* fetch resolves: the status is tested, then the decoder asks for a reader
Respond ==
    /\ call.pc = "fetching"
    /\ IF ~call.response.ok
       THEN Throw(HttpErrorMessage(call.provider, call.response.status, call.response.text))
       ELSE IF ~call.response.hasBody
       THEN Throw(NoResponseBody)
       ELSE Advance(Acc, [call EXCEPT !.pc = "reading"])

\* reader.read() resolves with a value
ReadChunk ==
    /\ call.pc = "reading"
    /\ call.consumed < Len(call.response.reads)
    /\ LET time == now + ReadMs
           d == decoderRead(call.provider, call.buffer, call.response.reads[call.consumed + 1])
           a1 == forAwait(d.objects, Acc, time)
           left == a1.task.pc = "done"
           a2 == IF ~left /\ d.returned THEN yieldMetrics(a1, time) ELSE a1
       IN  Advance(a2, [call EXCEPT !.consumed = @ + 1,
                                    !.buffer = d.buffer,
                                    !.pc = IF left THEN "aborted"
                                           ELSE IF d.returned THEN "done" ELSE "reading",
                                    !.end = IF ~left /\ d.returned THEN "marker" ELSE @])

\* reader.read() resolves with done
ReadDone ==
    /\ call.pc = "reading"
    /\ call.consumed = Len(call.response.reads)
    /\ Advance(yieldMetrics(Acc, now + ReadMs),
               [call EXCEPT !.pc = "done", !.end = "close"])

\* variant: the metrics event is yielded before the failure is passed on
ReadError_yieldsMetrics ==
    /\ call.pc = "reading"
    /\ LET a1 == yieldMetrics(Acc, now + ReadMs)
           r == catchError(resultId(hrc.providersToTest[1]), a1.task, ReadFailed)
       IN  Advance([a1 EXCEPT !.task = r.task, !.state = dispatchAll(a1.state, r.actions)],
                   [call EXCEPT !.pc = "failed", !.thrown = Some(ReadFailed)])

\* reader.read() rejects
ReadError ==
    /\ call.pc = "reading"
    /\ Throw(ReadFailed)

NextAdapter == Respond \/ ReadChunk \/ ReadDone \/ ReadError

SpecAdapter == InitAdapter /\ [][NextAdapter]_vars

----------------------------------------------------------------------------
(* Claims about the adapters and their decoders *)

MetricsEvents == {k \in DOMAIN call.events : call.events[k].type = "metrics"}
ChunkEvents == {k \in DOMAIN call.events : call.events[k].type = "chunk"}

\* C23: a generate call that runs to completion (its decoder met [DONE] or the
\* body closed) has yielded exactly one metrics event, as its last event,
\* after all of its chunk events; nothing is yielded after a metrics event;
\* a call that failed, or that the lane stopped consuming, has yielded no
\* metrics event.
C23_ExactlyOneMetricsLast ==
    /\ [](/\ \A k \in MetricsEvents : k = Len(call.events)
          /\ call.pc = "done" =>
                /\ MetricsEvents = {Len(call.events)}
                /\ ChunkEvents = 1..(Len(call.events) - 1)
                /\ call.end \in {"marker", "close"}
          /\ call.pc # "done" => MetricsEvents = {} /\ call.end = "none"
          /\ call.pc = "failed" => IsSome(call.thrown))
    /\ [][MetricsEvents # {} => call'.events = call.events]_vars

C23_Witness ==
    /\ call.pc = "done" /\ call.end = "marker"
    /\ call.consumed < Len(call.response.reads)
    /\ Len(call.events) = 2
    /\ call.events[1].type = "chunk" /\ call.events[2].type = "metrics"
    /\ status(state.results[1]) = "finish"

RECURSIVE ChunkContents(_)
ChunkContents(events) ==
    IF events = <<>> THEN <<>>
    ELSE IF Head(events).type = "chunk"
    THEN <<Head(events).content>> \o ChunkContents(Tail(events))
    ELSE ChunkContents(Tail(events))

RECURSIVE NonEmptyDeltas(_)
NonEmptyDeltas(objects) ==
    IF objects = <<>> THEN <<>>
    ELSE IF Head(objects).content # ""
    THEN <<Head(objects).content>> \o NonEmptyDeltas(Tail(objects))
    ELSE NonEmptyDeltas(Tail(objects))

FirstChunk == CHOOSE k \in ChunkEvents : \A j \in ChunkEvents : k <= j

\* C24: the chunk events of a generate call are, in order, the non-empty text
\* deltas of the objects its decoder yielded (an object without a delta gives
\* no chunk); firstTokenTime is the instant of the first chunk event, does not
\* change once it is set, and is what the metrics event carries: undefined
\* exactly when there was no chunk event.
C24_ChunkIffDeltaAndFirstTokenOnce ==
    /\ [](/\ ChunkContents(call.events) = NonEmptyDeltas(call.decoded)
          /\ IsSome(tasks[1].firstTokenTime) <=> ChunkEvents # {}
          /\ ChunkEvents # {} => tasks[1].firstTokenTime = Some(call.at[FirstChunk])
          /\ \A k \in MetricsEvents :
                /\ call.events[k].data.firstTokenTime = tasks[1].firstTokenTime
                /\ call.events[k].data.firstTokenTime = None <=> ChunkEvents = {})
    /\ [][IsSome(tasks[1].firstTokenTime) =>
              tasks'[1].firstTokenTime = tasks[1].firstTokenTime]_vars

C24_Witness ==
    /\ call.pc = "done"
    /\ Len(call.decoded) = 3 /\ call.decoded[2].content = ""
    /\ Len(call.events) = 3 /\ ChunkEvents = {1, 2}
    /\ call.at[1] < call.at[2]
    /\ tasks[1].firstTokenTime = Some(call.at[1])
    /\ call.events[3].data.firstTokenTime = Some(call.at[1])

IsPrefix(a, b) == Len(a) <= Len(b) /\ a = SubSeq(b, 1, Len(a))
Ended == call.pc \in {"returned", "closed"}
EndsWith(s, suffix) ==
    Len(s) >= Len(suffix) /\ SubSeq(s, Len(s) - Len(suffix) + 1, Len(s)) = suffix

\* what a decoder yields for the body when it arrives in one read
WholeRead == DecodeWhole(call.provider, Flatten(call.reads))

\* the decoder has yielded what it yields for the body in one read
SameAsOneRead == IsPrefix(call.decoded, WholeRead) /\ (Ended => call.decoded = WholeRead)

\* C25: however the body is cut into reads, inside a line or between the two
\* line feeds of a separator, the Cerebras decoder yields the objects it
\* yields when the body arrives in one read.
C25_BufferingDecoderSplitIndependent ==
    call.provider = "cerebras" => SameAsOneRead

C25_Witness ==
    /\ call.provider = "cerebras" /\ call.pc = "closed"
    /\ Len(call.reads) = 2
    /\ call.reads[1][Len(call.reads[1])] = "\n" /\ call.reads[2][1] = "\n"
    /\ Len(call.decoded) = 2
    /\ call.decoded = WholeRead

\* C26: however the body is cut into reads, the Zhipu and Moonshot decoders
\* yield the objects they yield when the body arrives in one read.
C26_OpenAIDecoderSplitIndependent ==
    call.provider \in {"zhipu", "moonshot"} => SameAsOneRead

FirstDone(kinds) ==
    IF \E k \in DOMAIN kinds : kinds[k] = "done"
    THEN CHOOSE k \in DOMAIN kinds : kinds[k] = "done" /\ \A j \in 1..(k - 1) : kinds[j] # "done"
    ELSE Len(kinds) + 1

RECURSIVE ObjectsFrom(_, _, _)
ObjectsFrom(kinds, k, last) ==
    IF k > last THEN <<>>
    ELSE IF kinds[k] = "delta"
    THEN <<[content |-> SegmentDelta(k)]>> \o ObjectsFrom(kinds, k + 1, last)
    ELSE IF kinds[k] = "empty"
    THEN <<[content |-> ""]>> \o ObjectsFrom(kinds, k + 1, last)
    ELSE ObjectsFrom(kinds, k + 1, last)

\* the events of the segments in front of the first end marker
ObjectsBeforeDone(kinds) == ObjectsFrom(kinds, 1, FirstDone(kinds) - 1)

\* C27: in every decoder nothing is yielded for a segment that follows a
\* [DONE] segment, in the same read or a later one: the objects yielded are
\* among those of the segments in front of the marker, and a body that holds
\* the marker is not read to its close.
C27_DoneEndsDecoding ==
    FirstDone(call.segments) <= Len(call.segments) =>
        /\ Len(call.decoded) <= Len(ObjectsBeforeDone(call.segments))
        /\ \A i \in DOMAIN call.decoded :
              \E j \in DOMAIN ObjectsBeforeDone(call.segments) :
                  call.decoded[i] = ObjectsBeforeDone(call.segments)[j]
        /\ call.pc # "closed"

\* C28: a segment whose payload is not a JSON document is passed over: a
\* decoder that has reached the end of a body holding such a segment has
\* yielded, in order, the object of every well-formed segment in front of
\* the end marker.
C28_MalformedSegmentSkipped ==
    (Ended /\ \E k \in DOMAIN call.segments : call.segments[k] = "bad") =>
        call.decoded = ObjectsBeforeDone(call.segments)

\* C29: a successful response without a readable body makes the decoder throw
\* 'No response body' at once: generate yields no event and decodes nothing,
\* and the lane ends in error with that message, without text or metrics.
C29_NoBodyFailsBeforeAnyEvent ==
    (call.response.ok /\ ~call.response.hasBody /\ call.pc # "fetching") =>
        /\ call.pc = "failed" /\ call.thrown = Some(NoResponseBody)
        /\ call.events = <<>> /\ call.decoded = <<>>
        /\ tasks[1].exit = "throw"
        /\ state.results[1].error = Some(NoResponseBody)
        /\ status(state.results[1]) = "error"
        /\ state.results[1].responseText = "" /\ state.results[1].metrics = None

C29_Witness ==
    /\ call.response.ok /\ ~call.response.hasBody
    /\ call.pc = "failed"
    /\ state.results[1].error = Some(NoResponseBody)
    /\ state.raceState = "finished"

----------------------------------------------------------------------------
(* Leaderboard.  A rate is kept as the fraction num / den.                  *)

Truthy(o) == ~Falsy(o)

calcTotal(r) ==
    IF r.metrics = None \/ Val(r.metrics).finishTime = 0 \/ Val(r.metrics).startTime = 0
    THEN None
    ELSE Some(Val(r.metrics).finishTime - Val(r.metrics).startTime)

calcTtft(r) ==
    IF r.metrics = None \/ Falsy(Val(r.metrics).firstTokenTime)
                        \/ Val(r.metrics).startTime = 0
    THEN None
    ELSE Some(Val(Val(r.metrics).firstTokenTime) - Val(r.metrics).startTime)

\* variant: a lane without a usable duration is given the rate zero
calcTps_zeroWhenUndefined(r) ==
    IF r.metrics = None \/ Val(r.metrics).finishTime = 0
                        \/ Falsy(Val(r.metrics).firstTokenTime)
    THEN Some([num |-> 0, den |-> 1])
    ELSE LET m == Val(r.metrics)
             ms == m.finishTime - Val(m.firstTokenTime)
         IN  IF ms <= 0 THEN Some([num |-> 0, den |-> 1])
             ELSE Some([num |-> m.outputTokens * MsPerSecond, den |-> ms])

\* out / seconds with seconds = (finishTime - firstTokenTime) / 1000
calcTps(r) ==
    IF r.metrics = None \/ Val(r.metrics).finishTime = 0
                        \/ Falsy(Val(r.metrics).firstTokenTime)
    THEN None
    ELSE LET m == Val(r.metrics)
             ms == m.finishTime - Val(m.firstTokenTime)
         IN  IF ms <= 0 THEN None
             ELSE Some([num |-> m.outputTokens * MsPerSecond, den |-> ms])

Less(a, b) == a.num * b.den < b.num * a.den

\* results.filter(r => r.metrics && !r.error)
finished(results) ==
    SelectSeq(results, LAMBDA r : IsSome(r.metrics) /\ (r.error = None \/ Val(r.error) = ""))

\* .sort((a, b) => a.ttft - b.ttft) on the mapped copy; the sort is stable
RECURSIVE sortByTtft(_)
sortByTtft(xs) ==
    IF xs = <<>> THEN <<>>
    ELSE LET x == xs[Len(xs)]
             sorted == sortByTtft(SubSeq(xs, 1, Len(xs) - 1))
             before == {k \in DOMAIN sorted : sorted[k].ttft <= x.ttft}
         IN  SubSeq(sorted, 1, Cardinality(before)) \o <<x>>
             \o SubSeq(sorted, Cardinality(before) + 1, Len(sorted))

\* .sort((a, b) => b.tps - a.tps) on the mapped copy; the sort is stable
RECURSIVE sortByTps(_)
sortByTps(xs) ==
    IF xs = <<>> THEN <<>>
    ELSE LET x == xs[Len(xs)]
             sorted == sortByTps(SubSeq(xs, 1, Len(xs) - 1))
             before == {k \in DOMAIN sorted : ~Less(sorted[k].tps, x.tps)}
         IN  SubSeq(sorted, 1, Cardinality(before)) \o <<x>>
             \o SubSeq(sorted, Cardinality(before) + 1, Len(sorted))

slice3(xs) == SubSeq(xs, 1, IF Len(xs) < 3 THEN Len(xs) ELSE 3)

topByTtft(results) ==
    LET f == finished(results)
        mapped == [k \in DOMAIN f |-> [r |-> f[k], ttft |-> calcTtft(f[k])]]
        kept == SelectSeq(mapped, LAMBDA x : x.ttft # None)
    IN  slice3(sortByTtft([k \in DOMAIN kept |-> [kept[k] EXCEPT !.ttft = Val(@)]]))

topByTps(results) ==
    LET f == finished(results)
        mapped == [k \in DOMAIN f |-> [r |-> f[k], tps |-> calcTps(f[k])]]
        kept == SelectSeq(mapped, LAMBDA x : x.tps # None)
    IN  slice3(sortByTps([k \in DOMAIN kept |-> [kept[k] EXCEPT !.tps = Val(@)]]))

Leaderboard(results) ==
    [rendered |-> TRUE,
     shown |-> finished(results) # <<>>,
     finished |-> finished(results),
     topByTtft |-> topByTtft(results),
     topByTps |-> topByTps(results)]

(* The lanes a board is rendered for: each is a staged lane to which the    *)
(* reducer has applied what one task can dispatch.                          *)

SampleTexts == {"a", "abcde"}

\* metrics events of an adapter and metrics synthesized after a limit
MetricsSamples ==
    {generateMetrics([NewTask EXCEPT !.startTime = Some(Epoch)], initialState.prompt, t)
        : t \in {Epoch + EarlyMs, Epoch + MsPerSecond}}
    \cup {generateMetrics([NewTask EXCEPT !.startTime = Some(Epoch),
                                          !.firstTokenTime = Some(Epoch + EarlyMs),
                                          !.generatedText = g],
                          initialState.prompt, t)
            : g \in SampleTexts, t \in {Epoch + EarlyMs, Epoch + MsPerSecond}}
    \cup {syntheticMetrics(Epoch, t, n)
            : t \in {Epoch + EarlyMs, Epoch + MsPerSecond}, n \in 1..2}

LaneOutcomes ==
    [metrics : {None} \cup {Some(m) : m \in MetricsSamples},
     error : {None, Some("Failed to fetch")}]

BoardPairs == <<Pair("zhipu", "glm-4"), Pair("zhipu", "glm-4-air"), Pair("cerebras", "glm-4")>>

RECURSIVE outcomeActions(_, _)
outcomeActions(outcomes, k) ==
    IF k > Len(outcomes) THEN <<>>
    ELSE (IF outcomes[k].metrics = None THEN <<>>
          ELSE <<[type |-> "FINISH_STREAM", resultId |-> resultId(BoardPairs[k]),
                  metrics |-> Val(outcomes[k].metrics)]>>)
         \o (IF outcomes[k].error = None THEN <<>>
             ELSE <<[type |-> "SET_ERROR", resultId |-> resultId(BoardPairs[k]),
                     error |-> Val(outcomes[k].error)]>>)
         \o outcomeActions(outcomes, k + 1)

InitLeaderboard ==
    /\ \E outcomes \in [1..MaxSelected -> LaneOutcomes] :
          state = dispatchAll([initialState EXCEPT
                                  !.selectedPairs = SubSeq(BoardPairs, 1, MaxSelected)],
                              <<[type |-> "START_COMPARISON",
                                 providersToTest |-> SubSeq(BoardPairs, 1, MaxSelected)]>>
                              \o outcomeActions(outcomes, 1))
    /\ hrc = idleHrc /\ tasks = <<>> /\ now = Epoch /\ prior = noPrior
    /\ call = noCall
    /\ board = noBoard

\* the component is rendered with the lanes of the state
Render ==
    /\ ~board.rendered
    /\ board' = Leaderboard(state.results)
    /\ UNCHANGED <<state, hrc, tasks, now, prior, call>>

NextLeaderboard == Render

SpecLeaderboard == InitLeaderboard /\ [][NextLeaderboard]_vars

Eligible(r) ==
    /\ IsSome(r.metrics) /\ r.error = None
    /\ IsSome(Val(r.metrics).firstTokenTime)
    /\ Val(r.metrics).finishTime - Val(Val(r.metrics).firstTokenTime) > 0

\* C30: the board is computed from the lanes that have metrics and no error;
\* the throughput ranking holds exactly those of them whose metrics have a
\* first-token time earlier than the finish time, each once, with the rate
\* outputTokens / ((finishTime - firstTokenTime) / 1000), in descending order
\* of rate; a lane without first-token time or with a duration that is not
\* positive is absent from the ranking; rendering changes no lane.
C30_ThroughputRanking ==
    /\ [](board.rendered =>
            /\ board.finished =
                  SelectSeq(state.results, LAMBDA r : IsSome(r.metrics) /\ r.error = None)
            /\ \A i \in DOMAIN state.results :
                  Eligible(state.results[i]) <=>
                      \E k \in DOMAIN board.topByTps : board.topByTps[k].r = state.results[i]
            /\ \A k \in DOMAIN board.topByTps :
                  LET m == Val(board.topByTps[k].r.metrics)
                  IN  /\ board.topByTps[k].tps.den = m.finishTime - Val(m.firstTokenTime)
                      /\ board.topByTps[k].tps.den > 0
                      /\ board.topByTps[k].tps.num = m.outputTokens * MsPerSecond
            /\ \A j, k \in DOMAIN board.topByTps :
                  /\ j < k => ~Less(board.topByTps[j].tps, board.topByTps[k].tps)
                  /\ j # k => board.topByTps[j].r # board.topByTps[k].r)
    /\ [][state'.results = state.results]_vars

C30_Witness ==
    /\ board.rendered
    /\ Len(board.finished) = 2 /\ Len(board.topByTps) = 1
    /\ board.topByTps[1].r = state.results[2]
    /\ board.topByTps[1].tps.num > 0
    /\ Val(state.results[1].metrics).firstTokenTime # None
    /\ Val(state.results[1].metrics).finishTime
          < Val(Val(state.results[1].metrics).firstTokenTime)

----------------------------------------------------------------------------
(* The request of a lane.  In this specification the race configuration    *)
(* carries its model settings and its list of models that opted out of      *)
(* reasoning effort, the settings are changed while a race is under way,    *)
(* and call.sent holds, per lane, the request that its generate call sent.  *)

PairK == Pair("moonshot", "kimi-k2")
PairV == Pair("moonshot", "moonshot-v1-8k")
PairT == Pair("zhipu", "glm-4.6-thinking")

\* the characters of the model ids and of the patterns they are searched for
Chars(id) ==
    CASE id = "kimi-k2" -> <<"k", "i", "m", "i", "-", "k", "2">>
      [] id = "moonshot-v1-8k" ->
            <<"m", "o", "o", "n", "s", "h", "o", "t", "-", "v", "1", "-", "8", "k">>
      [] id = "glm-4.6-thinking" ->
            <<"g", "l", "m", "-", "4", ".", "6", "-", "t", "h", "i", "n", "k", "i", "n", "g">>
      [] id = "k2" -> <<"k", "2">>
      [] id = "thinking" -> <<"t", "h", "i", "n", "k", "i", "n", "g">>

\* String.prototype.includes
includes(id, pattern) ==
    LET text == Chars(id)
        sub == Chars(pattern)
    IN  \E k \in 0..(Len(text) - Len(sub)) : SubSeq(text, k + 1, k + Len(sub)) = sub

DefaultReasoningEffort == "medium"

\* the POST that generate issues: headers and body
generateRequest(providerId, prompt, model, apiKey, settings) ==
    [provider |-> providerId, authorization |-> apiKey, model |-> model, prompt |-> prompt,
     temperature |-> settings.temperature, max_tokens |-> settings.maxTokens,
     top_p |-> settings.topP,
     reasoning_effort |->
        IF providerId = "moonshot" /\ (includes(model, "k2") \/ includes(model, "thinking"))
        THEN Some(IF settings.reasoningEffort = None THEN DefaultReasoningEffort
                  ELSE Val(settings.reasoningEffort))
        ELSE None,
     do_sample |-> providerId = "zhipu" /\ includes(model, "thinking")]

\* utils/apiClient (not part of the sources at hand): the arguments are handed
\* to the generate of the provider's adapter
streamCompletionRequest(providerId, prompt, model, apiKey, settings) ==
    generateRequest(providerId, prompt, model, apiKey, settings)

\* streamCompletion(p.providerId, state.prompt, p.modelId, apiKey, modelSettings)
openStream(p, snapshot) ==
    streamCompletionRequest(p.providerId, snapshot.prompt, p.modelId,
                            snapshot.apiKeys[p.providerId], snapshot.raceConfig.modelSettings)

\* the requests of the tasks that startRacing started
sentRequests(h, ts) ==
    [i \in DOMAIN ts |->
        IF ts[i].pc = "streaming" THEN Some(openStream(h.providersToTest[i], h.snapshot))
        ELSE None]

SettingsProviders == {"moonshot", "zhipu"}
ReasoningEfforts == {None, Some("high")}
ModelSettingsSets ==
    [temperature : {"0.7"}, maxTokens : {2048}, topP : {"1.0"},
     reasoningEffort : ReasoningEfforts]
ExcludedLists == {None, Some(<<PairK.modelId>>)}
SettingsConfigs ==
    [mode : {"token_limit", "free_for_all"}, tokenLimit : {1}, timeLimit : {1},
     modelSettings : ModelSettingsSets, excludedReasoningModels : ExcludedLists]
OtherPrompt == "Hi"

\* the configuration with every control of the settings panel moved
OtherConfig(config) ==
    [mode |-> IF config.mode = "token_limit" THEN "free_for_all" ELSE "token_limit",
     tokenLimit |-> IF config.tokenLimit = 1 THEN MaxTokenLimit ELSE 1,
     timeLimit |-> config.timeLimit,
     modelSettings |->
        [config.modelSettings EXCEPT
            !.maxTokens = IF @ = 2048 THEN 4096 ELSE 2048,
            !.reasoningEffort = IF @ = None THEN Some("low") ELSE None],
     excludedReasoningModels |->
        IF config.excludedReasoningModels = None THEN Some(<<PairK.modelId>>) ELSE None]

noRequests == [pc |-> "requests", sent |-> <<>>]

InitSettings ==
    /\ \E config \in SettingsConfigs, second \in {PairV, PairT} :
          state = [initialState EXCEPT !.apiKeys = [p \in SettingsProviders |-> ApiKey],
                                       !.enabledProviders = [p \in SettingsProviders |-> None],
                                       !.selectedPairs = <<PairK, second>>,
                                       !.raceConfig = config]
    /\ hrc = idleHrc /\ tasks = <<>> /\ now = Epoch /\ prior = noPrior
    /\ call = noRequests
    /\ board = noBoard

\* handleRunComparison is invoked up to its first suspension; the race that
\* is followed is the first one of the page
SettingsStart(reduceMotion) ==
    /\ hrc.pc = "idle"
    /\ state.raceState = "idle"
    /\ ~startDisabled(state)
    /\ state.prompt # ""
    /\ LET selected == SelectSeqBy(state.selectedPairs, state.enabledProviders)
           h == [pc |-> "cd3", snapshot |-> Closure(state), providersToTest |-> selected,
                 raceStartTime |-> None]
           s1 == appReducer(state, [type |-> "START_COMPARISON", providersToTest |-> selected])
       IN  IF Len(selected) = 0
           THEN UNCHANGED <<state, hrc, tasks, call>>
           ELSE IF reduceMotion
           THEN LET r == startRacing(s1, h, now)
                IN  /\ state' = r.state /\ hrc' = r.hrc /\ tasks' = r.tasks
                    /\ call' = [call EXCEPT !.sent = sentRequests(h, r.tasks)]
           ELSE /\ state' = dispatchAll(s1, <<[type |-> "SET_RACE_STATE", payload |-> "countingDown"],
                                              [type |-> "SET_COUNTDOWN", payload |-> Some("3")]>>)
                /\ hrc' = h
                /\ tasks' = [i \in DOMAIN selected |-> NewTask]
                /\ call' = [call EXCEPT !.sent = [i \in DOMAIN selected |-> None]]
    /\ UNCHANGED <<now, prior, board>>

SettingsStartReducedMotion == SettingsStart(TRUE)
SettingsStartWithCountdown == SettingsStart(FALSE)

\* the delay(300) after 'Go!' has elapsed: every stream is opened
SettingsCountdownDone ==
    /\ hrc.pc = "go"
    /\ LET r == startRacing(state, hrc, now)
       IN  /\ state' = r.state /\ hrc' = r.hrc /\ tasks' = r.tasks
           /\ call' = [call EXCEPT !.sent = sentRequests(hrc, r.tasks)]
    /\ UNCHANGED <<now, prior, board>>

RaceUnderWay == hrc.pc # "idle"

\* the settings controls, used while a race is counting down or racing
ChangeRaceConfig ==
    /\ RaceUnderWay
    /\ state' = appReducer(state, [type |-> "SET_RACE_CONFIG",
                                   payload |-> OtherConfig(state.raceConfig)])
    /\ UNCHANGED <<hrc, tasks, now, prior, call, board>>

ChangePrompt ==
    /\ RaceUnderWay
    /\ state.prompt # OtherPrompt
    /\ state' = appReducer(state, [type |-> "SET_PROMPT", payload |-> OtherPrompt])
    /\ UNCHANGED <<hrc, tasks, now, prior, call, board>>

ChangeApiKey ==
    /\ RaceUnderWay
    /\ state.apiKeys[PairK.providerId] # ""
    /\ state' = appReducer(state, [type |-> "SET_API_KEY", providerId |-> PairK.providerId,
                                   apiKey |-> ""])
    /\ UNCHANGED <<hrc, tasks, now, prior, call, board>>

ChangeProviderEnabled ==
    /\ RaceUnderWay
    /\ state.enabledProviders[PairK.providerId] # Some(FALSE)
    /\ state' = appReducer(state, [type |-> "SET_PROVIDER_ENABLED",
                                   providerId |-> PairK.providerId, enabled |-> FALSE])
    /\ UNCHANGED <<hrc, tasks, now, prior, call, board>>

ChangeSelection ==
    /\ RaceUnderWay
    /\ Len(state.selectedPairs) = 2
    /\ state' = appReducer(state, [type |-> "TOGGLE_MODEL_SELECTION",
                                   payload |-> state.selectedPairs[2]])
    /\ UNCHANGED <<hrc, tasks, now, prior, call, board>>

NextSettings ==
    \/ SettingsStartReducedMotion
    \/ SettingsStartWithCountdown
    \/ CountdownStep
    \/ SettingsCountdownDone
    \/ ChangeRaceConfig
    \/ ChangePrompt
    \/ ChangeApiKey
    \/ ChangeProviderEnabled
    \/ ChangeSelection
    \/ \E i \in Lanes :
          \/ LaneChunk(i)
          \/ LaneMetrics(i)
          \/ LaneNetworkError(i)

SpecSettings == InitSettings /\ [][NextSettings]_vars

Sent(i) == i \in DOMAIN call.sent /\ IsSome(call.sent[i])
Excluded(modelId) ==
    /\ IsSome(hrc.snapshot.raceConfig.excludedReasoningModels)
    /\ \E k \in DOMAIN Val(hrc.snapshot.raceConfig.excludedReasoningModels) :
          Val(hrc.snapshot.raceConfig.excludedReasoningModels)[k] = modelId

SettingsChanged == Closure(state) # hrc.snapshot
LaneIds == [i \in DOMAIN state.results |-> state.results[i].id]

\* C36: a race runs on the settings of the moment start was invoked.  The
\* snapshot is the state of that moment and stays as it is while the race is
\* counting down or racing, whatever is changed in the settings; the lanes
\* are, and stay, those of the snapshot's selection and enablement; a lane is
\* cut by the token limit of the snapshot and by nothing else; the request of
\* a lane carries the prompt, key and model settings of the snapshot and does
\* not change once it is sent.
C36_RaceRunsOnSnapshot ==
    /\ [][(~RaceUnderWay /\ hrc'.pc # "idle") => hrc'.snapshot = Closure(state)]_vars
    /\ [][(RaceUnderWay /\ hrc'.pc # "idle") =>
              /\ hrc'.snapshot = hrc.snapshot
              /\ hrc'.providersToTest = hrc.providersToTest]_vars
    /\ [][state.results # <<>> => LaneIds' = LaneIds]_vars
    /\ [][\A i \in DOMAIN call.sent : Sent(i) => call'.sent[i] = call.sent[i]]_vars
    /\ [](state.results # <<>> =>
            /\ hrc.providersToTest =
                  SelectSeqBy(hrc.snapshot.selectedPairs, hrc.snapshot.enabledProviders)
            /\ LaneIds = [i \in DOMAIN hrc.providersToTest |-> resultId(hrc.providersToTest[i])]
            /\ \A i \in DOMAIN tasks :
                  /\ hrc.snapshot.raceConfig.mode = "token_limit" =>
                        /\ tasks[i].tokenCount <= hrc.snapshot.raceConfig.tokenLimit
                        /\ tasks[i].exit = "token" =>
                              tasks[i].tokenCount = hrc.snapshot.raceConfig.tokenLimit
                  /\ hrc.snapshot.raceConfig.mode = "free_for_all" =>
                        /\ tasks[i].tokenCount = Len(tasks[i].yielded)
                        /\ tasks[i].exit # "token"
                  /\ Sent(i) <=> tasks[i].startTime # None
                  /\ Sent(i) =>
                        LET request == Val(call.sent[i])
                            settings == hrc.snapshot.raceConfig.modelSettings
                        IN  /\ request.model = hrc.providersToTest[i].modelId
                            /\ request.provider = hrc.providersToTest[i].providerId
                            /\ request.prompt = hrc.snapshot.prompt
                            /\ request.authorization = hrc.snapshot.apiKeys[request.provider]
                            /\ request.authorization # ""
                            /\ request.temperature = settings.temperature
                            /\ request.max_tokens = settings.maxTokens
                            /\ request.top_p = settings.topP
                            /\ IsSome(request.reasoning_effort) =>
                                  (settings.reasoningEffort = None
                                   \/ request.reasoning_effort = settings.reasoningEffort))

\* every setting was changed after start; the first lane was cut by the limit
\* of the snapshot and the second one is still streaming
C36_Witness ==
    /\ hrc.pc = "racing" /\ Len(tasks) = 2
    /\ hrc.snapshot.raceConfig.mode = "token_limit"
    /\ state.raceConfig.mode = "free_for_all"
    /\ state.prompt = OtherPrompt /\ hrc.snapshot.prompt # OtherPrompt
    /\ state.apiKeys[PairK.providerId] = ""
    /\ state.enabledProviders[PairK.providerId] = Some(FALSE)
    /\ Len(state.selectedPairs) = 1
    /\ Sent(1) /\ Val(call.sent[1]).authorization = ApiKey
    /\ Val(call.sent[1]).max_tokens # state.raceConfig.modelSettings.maxTokens
    /\ tasks[1].exit = "token" /\ Len(tasks[1].yielded) = 2
    /\ tasks[2].pc = "streaming"

----------------------------------------------------------------------------
(* Model listing.  A listing call ends with a list or with a throw.         *)

MaxFetched == 2

\* ids a listing endpoint may report: one of the static list, one that is not
FetchedIds == {"kimi-k2", "kimi-new"}

RECURSIVE SeqsUpTo(_, _)
SeqsUpTo(S, n) ==
    IF n = 0 THEN {<<>>}
    ELSE SeqsUpTo(S, n - 1) \cup {Append(q, x) : q \in {r \in SeqsUpTo(S, n - 1) : Len(r) = n - 1}, x \in S}

\* what the HTTP request of a listing call comes to: fetch rejects, the status
\* is not a success, the body is not JSON, the proxy reports an error, the
\* JSON holds no list, or it lists ids
ListingOutcomes ==
    {[kind |-> k, ids |-> <<>>] : k \in {"network", "status", "notjson", "error", "nodata"}}
    \cup {[kind |-> "list", ids |-> ids] : ids \in SeqsUpTo(FetchedIds, MaxFetched)}

\* the static lists, scaled down to two ids each
MOONSHOT_MODELS == <<"kimi-k2", "moonshot-v1-8k">>
MOONSHOT_FALLBACK == <<"kimi-k2", "moonshot-v1-8k">>
ZHIPU_FALLBACK == <<"glm-4.6", "glm-4">>
GROQ_FALLBACK == <<"llama-3.3-70b-versatile", "llama-3.1-8b-instant">>
CEREBRAS_MODELS == <<"llama3.1-8b", "llama-3.3-70b">>

returned(list) == [threw |-> FALSE, list |-> list]
thrown == [threw |-> TRUE, list |-> <<>>]

\* Array.from(new Set(ids)): the first occurrence of every id, in order
RECURSIVE ArrayFromSet(_)
ArrayFromSet(ids) ==
    IF ids = <<>> THEN <<>>
    ELSE LET front == ArrayFromSet(SubSeq(ids, 1, Len(ids) - 1))
             last == ids[Len(ids)]
         IN  IF \E k \in DOMAIN front : front[k] = last THEN front ELSE Append(front, last)

fetchViaProxy(outcome) ==
    CASE outcome.kind \in {"network", "status", "notjson", "error"} -> thrown
      [] outcome.kind = "nodata" -> returned(<<>>)
      [] OTHER -> returned(outcome.ids)

fetchMoonshotModels(outcome) ==
    LET models == fetchViaProxy(outcome)
    IN  IF models.threw THEN returned(MOONSHOT_FALLBACK)
        ELSE returned(ArrayFromSet(models.list \o MOONSHOT_FALLBACK))

fetchZhipuModels(outcome) ==
    LET models == fetchViaProxy(outcome)
    IN  IF models.threw THEN returned(ZHIPU_FALLBACK)
        ELSE IF Len(models.list) = 0 THEN returned(ZHIPU_FALLBACK)
        ELSE returned(ArrayFromSet(models.list \o ZHIPU_FALLBACK))

fetchGroqModels(outcome) ==
    LET models == fetchViaProxy(outcome)
    IN  IF models.threw THEN returned(GROQ_FALLBACK) ELSE models

fetchCerebrasModels(outcome) == returned(CEREBRAS_MODELS)

\* the catch block logs the error and throws it again
fetchTogetherModels(outcome) ==
    CASE outcome.kind \in {"network", "status", "notjson"} -> thrown
      [] outcome.kind \in {"error", "nodata"} -> thrown
      [] OTHER -> returned(outcome.ids)

\* moonshotService.getModels
moonshotGetModels(outcome) ==
    CASE outcome.kind \in {"network", "status", "notjson"} -> returned(MOONSHOT_MODELS)
      [] outcome.kind \in {"error", "nodata"} -> returned(MOONSHOT_MODELS)
      [] OTHER -> returned(ArrayFromSet(outcome.ids \o MOONSHOT_MODELS))

Fetchers == {"fetchMoonshotModels", "fetchZhipuModels", "fetchGroqModels",
             "fetchCerebrasModels", "fetchTogetherModels"}
ListingOperations == Fetchers \cup {"moonshotService.getModels"}

fetcher(name, outcome) ==
    CASE name = "fetchMoonshotModels" -> fetchMoonshotModels(outcome)
      [] name = "fetchZhipuModels" -> fetchZhipuModels(outcome)
      [] name = "fetchGroqModels" -> fetchGroqModels(outcome)
      [] name = "fetchCerebrasModels" -> fetchCerebrasModels(outcome)
      [] name = "fetchTogetherModels" -> fetchTogetherModels(outcome)
      [] OTHER -> moonshotGetModels(outcome)

\* fetchModels with the fetcher of the provider's configuration
fetchModels(name, outcome) ==
    LET result == fetcher(name, outcome)
    IN  IF result.threw THEN returned(<<>>) ELSE result

InitListing ==
    /\ state = initialState /\ hrc = idleHrc /\ tasks = <<>> /\ now = Epoch /\ prior = noPrior
    /\ board = noBoard
    /\ \E name \in ListingOperations, outcome \in ListingOutcomes :
          call = [pc |-> "listing", operation |-> name, outcome |-> outcome]

\* the fetcher, or the adapter's getModels, is called as it is
ListDirectly ==
    /\ call.pc = "listing"
    /\ call' = [pc |-> "listed", operation |-> call.operation, outcome |-> call.outcome,
                through |-> "direct", result |-> fetcher(call.operation, call.outcome)]
    /\ UNCHANGED <<state, hrc, tasks, now, prior, board>>

\* the fetcher is called by fetchModels
ListThroughFetchModels ==
    /\ call.pc = "listing"
    /\ call.operation \in Fetchers
    /\ call' = [pc |-> "listed", operation |-> call.operation, outcome |-> call.outcome,
                through |-> "fetchModels", result |-> fetchModels(call.operation, call.outcome)]
    /\ UNCHANGED <<state, hrc, tasks, now, prior, board>>

NextListing == ListDirectly \/ ListThroughFetchModels

SpecListing == InitListing /\ [][NextListing]_vars

\* the static list a listing falls back to; Together has none
StaticList(name) ==
    CASE name = "fetchMoonshotModels" -> MOONSHOT_FALLBACK
      [] name = "fetchZhipuModels" -> ZHIPU_FALLBACK
      [] name = "fetchGroqModels" -> GROQ_FALLBACK
      [] name = "fetchCerebrasModels" -> CEREBRAS_MODELS
      [] name = "fetchTogetherModels" -> <<>>
      [] OTHER -> MOONSHOT_MODELS

Merging == {"fetchMoonshotModels", "fetchZhipuModels", "moonshotService.getModels"}
RequestFailed == call.outcome.kind \in {"network", "status", "notjson", "error"}
NoDuplicate(list) == \A j, k \in DOMAIN list : j # k => list[j] # list[k]

\* C32: a listing call never throws: whatever the request comes to, it ends
\* with a list; when the request fails the list is the static list of the
\* provider; when it succeeds for a provider that merges, the list holds the
\* fetched ids and the static ones, each once.
C32_ListingNeverThrows ==
    call.pc = "listed" =>
        /\ ~call.result.threw
        /\ RequestFailed => call.result.list = StaticList(call.operation)
        /\ (call.outcome.kind = "list" /\ call.operation \in Merging) =>
              /\ Range(call.result.list)
                    = Range(call.outcome.ids) \cup Range(StaticList(call.operation))
              /\ NoDuplicate(call.result.list)

----------------------------------------------------------------------------
(* Two generate calls on one adapter.  Each call has its response, the      *)
(* state of its decoder (consumed, buffer), the locals of generate and the  *)
(* events it has yielded; steps of the two calls interleave.                *)

\* the bodies the two calls read: at most two segments, one with a text delta
ConcurrentStreams ==
    {kinds \in Streams : Len(kinds) <= 2 /\ \E k \in DOMAIN kinds : kinds[k] = "delta"}

\* delivered whole or in two reads
ConcurrentReads ==
    {reads \in UNION {BoundaryDeliveries(kinds) : kinds \in ConcurrentStreams} : Len(reads) <= 2}

\* a generate call whose fetch has resolved with a readable body
NewGenerate(reads) ==
    [pc |-> "reading", reads |-> reads, consumed |-> 0, buffer |-> <<>>,
     locals |-> [NewTask EXCEPT !.pc = "streaming", !.startTime = Some(Epoch)],
     events |-> <<>>, stepsAt |-> <<>>]

\* the loop of generate over the objects its decoder yields from one read
RECURSIVE generateLoop(_, _, _)
generateLoop(objects, g, time) ==
    IF objects = <<>> THEN g
    ELSE IF Head(objects).content # ""
    THEN generateLoop(Tail(objects),
                      [g EXCEPT !.locals = generateOnContent(@, Head(objects).content, time),
                                !.events = Append(@, [type |-> "chunk",
                                                      content |-> Head(objects).content])],
                      time)
    ELSE generateLoop(Tail(objects), g, time)

\* the code of generate after its loop
generateEnd(g, time) ==
    [g EXCEPT !.pc = "done",
              !.events = Append(@, [type |-> "metrics",
                                    data |-> generateMetrics(g.locals, initialState.prompt,
                                                             time)])]

\* one step of a call: reader.read() resolves, with a value or with done
generateStep(g, provider, time) ==
    LET stepped == [g EXCEPT !.stepsAt = Append(@, time)]
    IN  IF g.consumed = Len(g.reads) THEN generateEnd(stepped, time)
        ELSE LET d == decoderRead(provider, g.buffer, g.reads[g.consumed + 1])
                 g1 == generateLoop(d.objects,
                                    [stepped EXCEPT !.consumed = @ + 1, !.buffer = d.buffer],
                                    time)
             IN  IF d.returned THEN generateEnd(g1, time) ELSE g1

\* variant: firstTokenTime is a variable of the adapter, not of the call
stepOf_sharedFirstToken(gens, k, provider, time) ==
    LET g == generateStep(gens[k], provider, time)
    IN  [j \in DOMAIN gens |->
            IF j = k THEN g
            ELSE [gens[j] EXCEPT !.locals.firstTokenTime = g.locals.firstTokenTime]]

\* a step of the k-th call: the variables it reads and writes are its own
stepOf(gens, k, provider, time) ==
    [gens EXCEPT ![k] = generateStep(gens[k], provider, time)]

InitConcurrent ==
    /\ state = initialState /\ hrc = idleHrc /\ tasks = <<>> /\ now = Epoch /\ prior = noPrior
    /\ board = noBoard
    /\ \E provider \in AdapterProviders, first \in ConcurrentReads, second \in ConcurrentReads :
          call = [pc |-> "pair", provider |-> provider,
                  gens |-> <<NewGenerate(first), NewGenerate(second)>>]

GenerateStep(k) ==
    /\ call.pc = "pair"
    /\ call.gens[k].pc = "reading"
    /\ call' = [call EXCEPT !.gens = stepOf(call.gens, k, call.provider, now + ReadMs)]
    /\ now' = now + ReadMs
    /\ UNCHANGED <<state, hrc, tasks, prior, board>>

NextConcurrent == \E k \in 1..2 : GenerateStep(k)

SpecConcurrent == InitConcurrent /\ [][NextConcurrent]_vars

\* the call that makes the same steps at the same instants with no other call
RECURSIVE Alone(_, _, _)
Alone(g, provider, times) ==
    IF times = <<>> THEN g
    ELSE Alone(generateStep(g, provider, Head(times)), provider, Tail(times))

AloneRun(k) == Alone(NewGenerate(call.gens[k].reads), call.provider, call.gens[k].stepsAt)

----------------------------------------------------------------------------
(* Claims about the race as a whole *)

\* C34: whenever the race state is finished, every lane of the result set has
\* metrics or an error and is not loading.
C34_FinishedMeansSettled ==
    state.raceState = "finished" =>
        \A i \in DOMAIN state.results :
            /\ ~state.results[i].isLoading
            /\ IsSome(state.results[i].metrics) \/ IsSome(state.results[i].error)

LaneEvent ==
    \E i \in DOMAIN state.results :
        /\ i \in DOMAIN state'.results
        /\ state'.results[i].id = state.results[i].id
        /\ \/ state'.results[i].responseText # state.results[i].responseText
           \/ state'.results[i].metrics # state.results[i].metrics
           \/ state'.results[i].error # state.results[i].error
        /\ ~(state.results[i].responseText # "" /\ state'.results[i].responseText = "")

\* C35: at most one run is in flight: no run is started while lanes of an
\* earlier run are still streaming, and a chunk, metrics or error applied to
\* a lane of the result set comes from a task of the current run.
C35_OneRunInFlight ==
    /\ [](\A i \in DOMAIN prior.tasks : prior.tasks[i].pc # "streaming")
    /\ [][LaneEvent => tasks' # tasks]_vars

----------------------------------------------------------------------------
(* One token-limited race: both providers keyed, every limit 1..MaxTokenLimit *)

InitTokenLimit ==
    /\ \E limit \in 1..MaxTokenLimit :
          state = [initialState EXCEPT
                      !.apiKeys = [p \in Providers |-> ApiKey],
                      !.selectedPairs = <<PairA, PairB>>,
                      !.raceConfig = [mode |-> "token_limit", tokenLimit |-> limit,
                                      timeLimit |-> 1]]
    /\ hrc = idleHrc /\ tasks = <<>> /\ now = Epoch /\ prior = noPrior
    /\ call = noCall
    /\ board = noBoard

NextTokenLimit ==
    \/ Tick
    \/ StartReducedMotion
    \/ \E i \in Lanes : LaneChunk(i)
    \/ \E i \in Lanes : LaneMetrics(i)
    \/ \E i \in Lanes : LaneEndsWithoutMetrics(i)
    \/ \E i \in Lanes : LaneNetworkError(i)

SpecTokenLimit == InitTokenLimit /\ [][NextTokenLimit]_vars

OwnMetrics(i) == IsSome(tasks[i].emitted) /\ lane(i).metrics = tasks[i].emitted

----------------------------------------------------------------------------
(* The loop of generate over decoded objects of any shape.  An object is a  *)
(* JSON document as parsed: its choices array may be missing or empty, a    *)
(* choice may lack its delta, a delta its content.                          *)

MaxObjects == 3

choiceWith(content) == [delta |-> Some([content |-> content])]

ObjectShapes ==
    {[choices |-> Some(<<choiceWith(Some("a"))>>)],
     [choices |-> Some(<<choiceWith(Some(""))>>)],
     [choices |-> Some(<<choiceWith(None)>>)],
     [choices |-> Some(<<[delta |-> None]>>)],
     [choices |-> Some(<<>>)],
     [choices |-> None]}

\* choice?.delta?.content
deltaContent(choice) ==
    IF choice = None THEN None
    ELSE IF Val(choice).delta = None THEN None
    ELSE Val(Val(choice).delta).content

\* array[0]
first(array) == IF Len(array) = 0 THEN None ELSE Some(array[1])

TypeError == "Cannot read properties of undefined (reading '0')"

\* Cerebras: chunk.choices?.[0]?.delta?.content;
\* Zhipu, Moonshot: chunk.choices[0]?.delta?.content
contentOf(provider, chunk) ==
    IF chunk.choices = None
    THEN IF provider = "cerebras" THEN [threw |-> FALSE, content |-> None]
         ELSE [threw |-> TRUE, content |-> None]
    ELSE [threw |-> FALSE, content |-> deltaContent(first(Val(chunk.choices)))]

InitObjects ==
    /\ state = initialState /\ hrc = idleHrc /\ tasks = <<>> /\ now = Epoch /\ prior = noPrior
    /\ board = noBoard
    /\ \E provider \in AdapterProviders, objects \in SeqsUpTo(ObjectShapes, MaxObjects) :
          /\ objects # <<>>
          /\ call = [pc |-> "looping", provider |-> provider, objects |-> objects, next |-> 1,
                     locals |-> [NewTask EXCEPT !.pc = "streaming", !.startTime = Some(Epoch)],
                     events |-> <<>>, thrown |-> None]

\* the decoder yields its next object: one iteration of generate's loop
ConsumeObject ==
    /\ call.pc = "looping"
    /\ call.next <= Len(call.objects)
    /\ LET c == contentOf(call.provider, call.objects[call.next])
       IN  call' =
             IF c.threw THEN [call EXCEPT !.pc = "failed", !.thrown = Some(TypeError)]
             ELSE IF IsSome(c.content) /\ Val(c.content) # ""
             THEN [call EXCEPT !.next = @ + 1,
                               !.locals = generateOnContent(@, Val(c.content), now + ReadMs),
                               !.events = Append(@, [type |-> "chunk",
                                                     content |-> Val(c.content)])]
             ELSE [call EXCEPT !.next = @ + 1]
    /\ now' = now + ReadMs
    /\ UNCHANGED <<state, hrc, tasks, prior, board>>

\* the decoder's sequence ends: generate yields its metrics
EndOfObjects ==
    /\ call.pc = "looping"
    /\ call.next = Len(call.objects) + 1
    /\ call' = [call EXCEPT !.pc = "done",
                            !.events = Append(@, [type |-> "metrics",
                                                  data |-> generateMetrics(call.locals,
                                                                           initialState.prompt,
                                                                           now + ReadMs)])]
    /\ now' = now + ReadMs
    /\ UNCHANGED <<state, hrc, tasks, prior, board>>

NextObjects == ConsumeObject \/ EndOfObjects

SpecObjects == InitObjects /\ [][NextObjects]_vars

HasText(object) ==
    /\ IsSome(object.choices) /\ Len(Val(object.choices)) > 0
    /\ IsSome(Val(object.choices)[1].delta)
    /\ IsSome(Val(Val(object.choices)[1].delta).content)
    /\ Val(Val(Val(object.choices)[1].delta).content) # ""

TextObjects(n) == {k \in 1..n : HasText(call.objects[k])}

\* C38: in the three adapters an object without a text delta (no choices
\* array, an empty one, a choice without delta or content) gives no chunk
\* and does not end the stream: the call does not fail, the chunks yielded
\* are those of the objects with text among the objects handled so far, and
\* the call ends with its metrics event once every object has been handled.
C38_ObjectWithoutDeltaIsSkipped ==
    /\ call.pc # "failed"
    /\ Cardinality({k \in DOMAIN call.events : call.events[k].type = "chunk"})
          = Cardinality(TextObjects(call.next - 1))
    /\ call.pc = "done" =>
          /\ call.next = Len(call.objects) + 1
          /\ call.events[Len(call.events)].type = "metrics"

----------------------------------------------------------------------------
(* The selection under toggle and clear-provider actions.  call keeps the   *)
(* last two actions dispatched and the selection each of them was applied   *)
(* to.                                                                      *)

noActions == [pc |-> "selection", last |-> None, before |-> <<>>,
              last2 |-> None, before2 |-> <<>>]

InitPairs ==
    /\ state = initialState
    /\ hrc = idleHrc /\ tasks = <<>> /\ now = Epoch /\ prior = noPrior
    /\ call = noActions
    /\ board = noBoard

\* an action is dispatched from the sidebar
Dispatched(a) ==
    /\ state' = appReducer(state, a)
    /\ call' = [call EXCEPT !.last = Some(a), !.before = state.selectedPairs,
                            !.last2 = call.last, !.before2 = call.before]
    /\ UNCHANGED <<hrc, tasks, now, prior, board>>

TogglePair == \E p \in SelectablePairs : Dispatched([type |-> "TOGGLE_MODEL_SELECTION", payload |-> p])

ClearProvider ==
    \E providerId \in Providers :
        Dispatched([type |-> "CLEAR_PROVIDER_SELECTIONS", providerId |-> providerId])

NextPairs == TogglePair \/ ClearProvider

SpecPairs == InitPairs /\ [][NextPairs]_vars

ToggledTwice ==
    /\ IsSome(call.last) /\ Val(call.last).type = "TOGGLE_MODEL_SELECTION"
    /\ call.last2 = call.last

\* C39: after any sequence of toggle and clear-provider actions the
\* selection holds no (providerId, modelId) pair twice, and when the last two
\* actions toggled the same pair the selection has the same set of pairs as
\* before the first of them.
C39_SelectionHoldsNoPairTwice ==
    /\ \A i, j \in DOMAIN state.selectedPairs :
          i # j => state.selectedPairs[i] # state.selectedPairs[j]
    /\ ToggledTwice => Range(state.selectedPairs) = Range(call.before2)

\* a selected pair was toggled twice with another pair selected after it
C39_Witness ==
    /\ ToggledTwice
    /\ Len(state.selectedPairs) = 2
    /\ state.selectedPairs # call.before2
    /\ call.before = <<state.selectedPairs[1]>>

====
